---- MODULE Spec2Model ----
(***************************************************************************)
(* Chunked file transfer over a message channel (splitFilePlugin).         *)
(*                                                                         *)
(* Five state machines share this module:                                  *)
(*   RegistrySpec  the Chunk Registry (ChunkManager) fed by the live       *)
(*                 message hook, the channel scanner and message deletes;  *)
(*   DownloadSpec  the Download Engine (DownloadManager.startDownload,     *)
(*                 pauseDownload, downloadLoop and its fetch workers);     *)
(*   UploadSpec    the Upload Engine (UploadManager.startUpload,           *)
(*                 resumeUpload, pauseUpload, processUpload, uploadChunk); *)
(*                 DeleteUploadSpec adds deleteUpload, the Refresh button  *)
(*                 (emitChange) and init() on the live page, with one      *)
(*                 worker for each call (ParallelDeleteUploadSpec: with    *)
(*                 MaxWorkers), HashingUploadSpec                          *)
(*                 a checksum that can fail, SafeModeSpec is the safe-mode *)
(*                 engine with its cooldown timer under fair scheduling;   *)
(*   RepairSpec    Verify and Repair (verifySessionAgainstFile,            *)
(*                 DownloadManager.repairSession), MaxRepairCalls calls    *)
(*                 that may overlap;                                       *)
(*   ScanSpec      the Scanner (DownloadManager.scanChannel).              *)
(* MergeSpec is the Download buttons of the chunk messages                 *)
(* (handleFileMerge) under the live hook and message deletes,              *)
(* MergeDownloadSpec the buttons next to the download engine,              *)
(* ResurrectSpec the upload engine started by resurrectSessionWithParams.  *)
(* SweepSpec is the registry with a clock at the edge of the expiry        *)
(* window, AttemptSpec the download engine under fair scheduling,          *)
(* LiveSettingsSpec both engines while the worker options change, and      *)
(* ProgressSpec the progress computation of the upload engine.             *)
(* JavaScript runs one task at a time: an action is one task, from the     *)
(* event that starts it to the next await of the code it runs.             *)
(***************************************************************************)
EXTENDS Integers, Sequences, FiniteSets, TLC

VARIABLES
    \* ---- Chunk Registry (ChunkManager) ----
    storage,        \* ChunkManager.storage: session id -> DetectedFileSession
    now,            \* Date.now(), in milliseconds
    notifyCount,    \* calls of ChunkManager.emitChange made by the last operation
    lastOp,         \* the last call made from outside (a hook, a button), and its case
    \* ---- Download Engine (DownloadManager) ----
    dl,             \* DownloadManager.downloads.get(sessionId), or NoDownload
    dlAborted,      \* the AbortControllers of the download that were aborted
    dlLoops,        \* the running downloadLoop calls: their local variables
    dlFetches,      \* the fetches in flight (processChunk awaiting fetcher)
    \* ---- Upload Engine (UploadManager) ----
    up,             \* UploadManager.sessions.get(id), or NoUpload
    upAborted,      \* the AbortControllers of the upload that were aborted
    upLoops,        \* the running processUpload calls: their local variables
    upSends,        \* the chunk sends in flight (processChunk / uploadChunk)
    upPauseSignals, \* history: the controllers pauseUpload aborted with sends in flight
    pendingUploads, \* settings.store.pendingUploads: what saveState wrote last
    upOrphans,      \* the sessions init() took out of the map while they had work
    upTimers,       \* the safe mode cooldown timers that did not fire yet
    settings,       \* settings.store: the options the engines read
    \* ---- Verify and Repair (ChunkManager, DownloadManager) ----
    referenceFile,  \* the reference File handed to verify and repair: its bytes
    remote,         \* the attachment bytes the CDN serves, by carrier message id
    vf,             \* the verifySessionAgainstFile calls: their local variables
    rp,             \* the repairSession calls: their RepairState and their locals
    activeRepairs,  \* DownloadManager.activeRepairs: the call whose RepairState it holds
    inbox,          \* carrier messages posted by the repair, not yet dispatched to the hook
    \* ---- Scanner (DownloadManager.scanChannel) ----
    channel,        \* the ids of the channel's messages, newest first
    scan,           \* the scanChannel call: its local variables and the requests it made
    \* ---- The message's Download button (handleFileMerge) ----
    merge           \* per Download button: the handleFileMerge call it made

registryVars == <<storage, now, notifyCount>>
downloadVars == <<dl, dlAborted, dlLoops, dlFetches>>
uploadVars   == <<up, upAborted, upLoops, upSends, upPauseSignals, pendingUploads, upTimers,
                 upOrphans>>
repairVars   == <<referenceFile, remote, vf, rp, activeRepairs, inbox>>
scanVars     == <<channel, scan>>
mergeVars    == <<merge>>
vars == <<storage, now, notifyCount, lastOp, dl, dlAborted, dlLoops, dlFetches,
          up, upAborted, upLoops, upSends, upPauseSignals, pendingUploads, upTimers, upOrphans,
          settings, referenceFile, remote, vf, rp, activeRepairs, inbox, channel, scan, merge>>

(***************************************************************************)
(* Bounds of the model.                                                    *)
(***************************************************************************)
MaxSessions == 2     \* session ids (timestamps) 1..MaxSessions
MaxIndex    == 1     \* chunk indices sent in metadata: 0..MaxIndex
MaxTotal    == 2     \* "total" sent in metadata: 1..MaxTotal
MaxMessages == 1     \* carrier message ids 1..MaxMessages
MaxTicks    == 1     \* clock ticks the model lets pass
DlChunks    == 3     \* chunks of the session that is downloaded
MaxWorkers  == 2     \* largest worker count the settings are given
MaxDownloadLoops == 2  \* startDownload calls that start a transfer loop
UpFileSize  == 3     \* bytes of the file that is uploaded
UpChunkSize == 2     \* bytes of one chunk of the upload
MaxUploadLoops == 2  \* processUpload calls between two loads of the plugin
MaxFileSize == 190   \* the reference file has MaxFileSize - 40 or MaxFileSize units
MaxSlack == 1        \* the clock stops MaxSlack ms after the start and after the window
MaxScanLimit == 101  \* the largest `limit` a scan is asked for
MaxHistory == 101    \* the longest channel history
MaxProgressSize == 6   \* file sizes 1..MaxProgressSize of the progress computation
MaxProgressChunk == 3  \* chunk sizes 1..MaxProgressChunk of the progress computation
MaxCarriers == 4     \* a repair starts while the channel has fewer carrier messages
MaxButtons == 2      \* Download buttons (chunk messages on screen) that are clicked
MaxRepairCalls == 2  \* repairSession and verifySessionAgainstFile calls, overlapping or not

\* CHUNK_TIMEOUT = 15 * 60 * 1000
CHUNK_TIMEOUT == 15 * 60 * 1000
\* One tick of the model's clock: sixteen minutes, past the expiry window.
TickMs == 16 * 60 * 1000

SessionIds == 1 .. MaxSessions
MessageIds == 1 .. MaxMessages
Buttons    == 1 .. MaxButtons
NoMessage  == 0      \* messageId undefined

(***************************************************************************)
(* JSON values of a message body, with the type typeof reports.            *)
(***************************************************************************)
Num(n) == [t |-> "number", v |-> n]
Str    == [t |-> "string", v |-> 0]

IndexVals     == {Num(n) : n \in 0 .. MaxIndex} \cup {Str}
TotalVals     == {Num(n) : n \in 1 .. MaxTotal} \cup {Str}
TimestampVals == {Num(n) : n \in SessionIds} \cup {Str}

\* The parsed body of a carrier message (JSON.parse(message.content)): every
\* body with the chunk tag and numeric fields, and bodies with one field wrong.
\* (originalName is a string and originalSize the number 1 in all of them, and
\* none carries a checksum).
WellTyped == [type : {"FileSplitterChunk"},
              index : IndexVals \ {Str}, total : TotalVals \ {Str},
              originalSize : {Num(1)}, timestamp : TimestampVals \ {Str}]
BasePayload == [type |-> "FileSplitterChunk", index |-> Num(0), total |-> Num(1),
                originalSize |-> Num(1), timestamp |-> Num(1)]
IllTyped == {[BasePayload EXCEPT !.type = "Other"], [BasePayload EXCEPT !.index = Str],
             [BasePayload EXCEPT !.total = Str], [BasePayload EXCEPT !.timestamp = Str],
             [BasePayload EXCEPT !.originalSize = Str]}
Payloads == WellTyped \cup IllTyped

\* message.attachments: none, one whose url is missing, or one with a url.
Attachments == {<<>>, <<[url |-> FALSE]>>, <<[url |-> TRUE]>>}

\* A message of the channel: its id, its parsed body, its attachments.
Messages == [id : MessageIds, content : Payloads, attachments : Attachments]

\* isValidChunk: the type tag and the typeof of each required field.
isValidChunk(chunk) ==
    /\ chunk.type = "FileSplitterChunk"
    /\ chunk.index.t = "number"
    /\ chunk.total.t = "number"
    /\ chunk.originalSize.t = "number"
    /\ chunk.timestamp.t = "number"

(***************************************************************************)
(* ChunkManager                                                            *)
(***************************************************************************)
\* calculateChecksum(blob): a digest of the bytes, or the sentinel "error";
\* NoChecksum is a metadata record without the checksum field.
NoChecksum == [h |-> "none", of |-> <<>>]
ErrorChecksum == [h |-> "error", of |-> <<>>]
digest(bytes) == [h |-> "sha256", of |-> bytes]

\* The metadata addChunk receives: a StoredFileChunk.
StoredChunk(index, total, timestamp, originalSize, checksum, messageId) ==
    [index |-> index, total |-> total, timestamp |-> timestamp,
     originalSize |-> originalSize, checksum |-> checksum, messageId |-> messageId]

\* What session.chunks keeps of a pushed chunk: the fields the code reads
\* again (its total is read only when it creates the session).
kept(chunk) ==
    [index |-> chunk.index, messageId |-> chunk.messageId, checksum |-> chunk.checksum]

\* getSession(sessionId) is not null
hasSession(sessionId) == sessionId \in DOMAIN storage

\* session.chunks.some(c => c.index === chunk.index)
hasIndex(session, index) == \E k \in 1 .. Len(session.chunks) : session.chunks[k].index = index

\* The indices a session holds.
indicesOf(session) == {session.chunks[j].index : j \in 1 .. Len(session.chunks)}

\* chunks.filter(keep)
RECURSIVE filterChunks(_, _, _)
filterChunks(chunks, field, value) ==
    IF chunks = <<>> THEN <<>>
    ELSE LET rest == filterChunks(Tail(chunks), field, value)
         IN IF Head(chunks)[field] # value THEN <<Head(chunks)>> \o rest ELSE rest

\* The registry after addChunk(chunk, channelId, uploader).
addChunkNoDedup(store, chunk) ==
    LET key == chunk.timestamp
        created == IF key \in DOMAIN store THEN store
                   ELSE [k \in DOMAIN store \cup {key} |->
                           IF k = key
                           THEN [id |-> key, totalChunks |-> chunk.total,
                                 size |-> chunk.originalSize, chunks |-> <<>>,
                                 lastUpdated |-> now, isComplete |-> FALSE]
                           ELSE store[k]]
        session == created[key]
        pushed == Append(session.chunks, kept(chunk))
    IN [created EXCEPT ![key] =
            [session EXCEPT !.chunks = pushed,
                            !.lastUpdated = now,
                            !.isComplete = (Len(pushed) = session.totalChunks)]]

addChunkStore(store, chunk) ==
    LET key == chunk.timestamp
        created == IF key \in DOMAIN store THEN store
                   ELSE [k \in DOMAIN store \cup {key} |->
                           IF k = key
                           THEN [id |-> key, totalChunks |-> chunk.total,
                                 size |-> chunk.originalSize, chunks |-> <<>>,
                                 lastUpdated |-> now, isComplete |-> FALSE]
                           ELSE store[k]]
        session == created[key]
        pushed == Append(session.chunks, kept(chunk))
    IN IF hasIndex(session, chunk.index) THEN created
       ELSE [created EXCEPT ![key] =
                [session EXCEPT !.chunks = pushed,
                                !.lastUpdated = now,
                                !.isComplete = (Len(pushed) = session.totalChunks)]]

\* emitChange calls of addChunk(chunk): one if the chunk was pushed.
addChunkEmits(store, chunk) ==
    IF chunk.timestamp \in DOMAIN store /\ hasIndex(store[chunk.timestamp], chunk.index)
    THEN 0 ELSE 1

\* The sessions of removeChunk(messageId) that hold a chunk of that message.
touchedBy(store, messageId) ==
    {k \in DOMAIN store :
        \E j \in 1 .. Len(store[k].chunks) : store[k].chunks[j].messageId = messageId}

\* The registry after removeChunk(messageId).
removeChunkStore(store, messageId) ==
    LET touched == touchedBy(store, messageId)
        emptied == {k \in touched : filterChunks(store[k].chunks, "messageId", messageId) = <<>>}
    IN [k \in DOMAIN store \ emptied |->
          IF k \in touched
          THEN [store[k] EXCEPT !.chunks = filterChunks(store[k].chunks, "messageId", messageId),
                                !.isComplete = FALSE]
          ELSE store[k]]

\* The registry after removeChunkByIndex(sessionId, index).
removeChunkByIndexStore(store, sessionId, index) ==
    IF sessionId \notin DOMAIN store THEN store
    ELSE LET session == store[sessionId]
             rest == filterChunks(session.chunks, "index", index)
         IN IF Len(rest) # Len(session.chunks)
            THEN [store EXCEPT ![sessionId] = [session EXCEPT !.chunks = rest,
                                                              !.isComplete = FALSE]]
            ELSE store

\* A sweep that also deletes the sessions last updated exactly CHUNK_TIMEOUT ago.
expiredAtWindow(store) == {k \in DOMAIN store : now - store[k].lastUpdated >= CHUNK_TIMEOUT}

\* The sessions cleanOldChunks deletes.
expired(store) == {k \in DOMAIN store : now - store[k].lastUpdated > CHUNK_TIMEOUT}

\* The registry after cleanOldChunks().
cleanOldChunksStore(store) == [k \in DOMAIN store \ expired(store) |-> store[k]]

(***************************************************************************)
(* Registry operations as steps.                                           *)
(***************************************************************************)
\* (sessionId, index) of the chunk is already in the registry.
isDuplicate(chunk) ==
    /\ hasSession(chunk.timestamp)
    /\ hasIndex(storage[chunk.timestamp], chunk.index)

\* ChunkManager.addChunk(chunk, channelId, uploader), called by `caller`.
addChunk(chunk) ==
    /\ storage' = addChunkStore(storage, chunk)
    /\ notifyCount' = addChunkEmits(storage, chunk)
    /\ lastOp' = IF isDuplicate(chunk) THEN "addChunk:duplicate" ELSE "addChunk:added"

\* The metadata of a valid payload as addChunk receives it.
chunkOf(data, messageId) ==
    StoredChunk(data.index.v, data.total.v, data.timestamp.v, data.originalSize.v,
                NoChecksum, messageId)

\* onMessageCreate: the live hook on MESSAGE_CREATE, for a message of `messages`.
onMessageCreateFrom(messages) ==
    /\ \E message \in messages :
         IF /\ Len(message.attachments) > 0
            /\ isValidChunk(message.content)
            /\ message.attachments[1].url
         THEN addChunk(chunkOf(message.content, message.id))
         ELSE /\ lastOp' = "ignored"
              /\ notifyCount' = 0
              /\ UNCHANGED storage
    /\ UNCHANGED <<now, downloadVars, uploadVars, settings, scanVars, repairVars, mergeVars>>

onMessageCreate == onMessageCreateFrom(Messages)

\* The carrier messages of files of MaxTotal chunks.
CarrierMessages ==
    {message \in Messages : /\ message.attachments = <<[url |-> TRUE]>>
                            /\ message.content \in WellTyped
                            /\ message.content.total = Num(MaxTotal)
                            /\ message.content.index.v < MaxTotal}

\* The live hook where the channel carries chunk messages only.
carrierMessageCreate == onMessageCreateFrom(CarrierMessages)

\* scanChannel: what it does with one message of a fetched page.
scanMessage ==
    /\ \E msg \in Messages :
         IF Len(msg.attachments) > 0 /\ isValidChunk(msg.content)
         THEN addChunk(chunkOf(msg.content, NoMessage))
         ELSE /\ lastOp' = "ignored"
              /\ notifyCount' = 0
              /\ UNCHANGED storage
    /\ UNCHANGED <<now, downloadVars, uploadVars, settings, scanVars, repairVars, mergeVars>>

\* The handleFileMerge calls after the registry let go of the chunks arrays
\* of `sessions` (session.chunks is assigned a new array, or the session is
\* deleted): a call at work keeps the array it was given, as it is now.
detached(sessions) ==
    [b \in Buttons |->
        IF /\ merge[b].pc \in {"fetch", "hash"}
           /\ merge[b].live
           /\ merge[b].timestamp \in sessions
        THEN [merge[b] EXCEPT !.live = FALSE, !.chunks = storage[merge[b].timestamp].chunks]
        ELSE merge[b]]

\* onMessageDelete({id}): ChunkManager.removeChunk(id). The filter gives
\* every session a new chunks array.
removeChunk ==
    /\ \E messageId \in MessageIds :
         /\ storage' = removeChunkStore(storage, messageId)
         /\ notifyCount' = IF touchedBy(storage, messageId) # {} THEN 1 ELSE 0
    /\ merge' = detached(DOMAIN storage)
    /\ lastOp' = "removeChunk"
    /\ UNCHANGED <<now, downloadVars, uploadVars, settings, scanVars, repairVars>>

\* ChunkManager.removeChunkByIndex(sessionId, index).
removeChunkByIndex ==
    /\ \E sessionId \in SessionIds, index \in 0 .. MaxIndex :
         /\ storage' = removeChunkByIndexStore(storage, sessionId, index)
         /\ notifyCount' = IF storage' # storage THEN 1 ELSE 0
         /\ merge' = detached({sessionId} \cap DOMAIN storage)
    /\ lastOp' = "removeChunkByIndex"
    /\ UNCHANGED <<now, downloadVars, uploadVars, settings, scanVars, repairVars>>

\* ChunkManager.cleanOldChunks(), the 60 s sweep.
cleanOldChunks ==
    /\ storage' = cleanOldChunksStore(storage)
    /\ notifyCount' = IF expired(storage) # {} THEN 1 ELSE 0
    /\ merge' = detached(expired(storage))
    /\ lastOp' = "cleanOldChunks"
    /\ UNCHANGED <<now, downloadVars, uploadVars, settings, scanVars, repairVars>>

\* Time passes.
Tick ==
    /\ now < MaxTicks * TickMs
    /\ now' = now + TickMs
    /\ lastOp' = "tick"
    /\ UNCHANGED <<storage, notifyCount, downloadVars, uploadVars, settings, scanVars, repairVars, mergeVars>>

\* Date.now() moves on to a later instant: just after the start, the expiry
\* window after the start, or that much after the former.
Elapse ==
    /\ \E instant \in {MaxSlack, CHUNK_TIMEOUT, CHUNK_TIMEOUT + MaxSlack} :
         /\ instant > now
         /\ now' = instant
    /\ lastOp' = "tick"
    /\ UNCHANGED <<storage, notifyCount, downloadVars, uploadVars, settings, scanVars, repairVars, mergeVars>>

NoDownload == [status |-> "none"]
NoUpload == [status |-> "none"]

\* settings.store.pendingUploads has no entry for the session.
NotSaved == [saved |-> FALSE]

\* No verifySessionAgainstFile call was made.
NoVerify == [pc |-> "idle"]

\* No repairSession call: no RepairState.
NoRepair == [status |-> "none"]

\* The calls of repairSession and verifySessionAgainstFile, in the order they
\* are made.
Calls == 1 .. MaxRepairCalls

\* scanChannel was not called.
NoScan == [pc |-> "idle"]

\* The button was not clicked: no handleFileMerge call of its own.
NoMerge == [pc |-> "idle"]

\* The message's Download button was not clicked.
IdleMerge == merge = [b \in Buttons |-> NoMerge]

\* No scan was asked for, of a channel without messages.
IdleScan == channel = <<>> /\ scan = NoScan

\* No verify or repair was asked for.
IdleRepair ==
    /\ referenceFile = <<>> /\ remote = <<>> /\ inbox = {}
    /\ vf = [c \in Calls |-> NoVerify] /\ rp = [c \in Calls |-> NoRepair]
    /\ activeRepairs = 0

\* The engines at rest.
IdleEngines ==
    /\ dl = NoDownload /\ dlAborted = {} /\ dlLoops = <<>> /\ dlFetches = {}
    /\ up = NoUpload /\ upAborted = {} /\ upLoops = <<>> /\ upSends = {}
    /\ upPauseSignals = {} /\ pendingUploads = NotSaved /\ upTimers = 0
    /\ upOrphans = <<>>
    /\ IdleRepair
    /\ IdleScan
    /\ IdleMerge
    /\ settings = [parallelUploads |-> FALSE, parallelCount |-> 2,
                   parallelDownloading |-> TRUE, downloadWorkers |-> 3, safeMode |-> TRUE]

\* ChunkManager.storage = {} at load.
RegistryInit ==
    /\ storage = <<>>
    /\ now = 0
    /\ notifyCount = 0
    /\ lastOp = "init"
    /\ IdleEngines

RegistryNext ==
    \/ onMessageCreate
    \/ scanMessage
    \/ removeChunk
    \/ removeChunkByIndex
    \/ cleanOldChunks
    \/ Tick

RegistrySpec == RegistryInit /\ [][RegistryNext]_vars

\* The registry with a clock that reaches the edge of the expiry window.
SweepNext ==
    \/ carrierMessageCreate
    \/ removeChunk
    \/ removeChunkByIndex
    \/ cleanOldChunks
    \/ Elapse

SweepSpec == RegistryInit /\ [][SweepNext]_vars

(***************************************************************************)
(* DownloadManager: one DownloadState, for the session DlSession.          *)
(***************************************************************************)
DlSession == 1

\* Bytes of chunk i of the session: two bytes a chunk, one in the last.
chunkBytes(i, total) == IF i = total - 1 THEN <<2 * i>> ELSE <<2 * i, 2 * i + 1>>

\* The original file: B0 || B1 || ... || B(total-1).
RECURSIVE originalFile(_, _)
originalFile(n, total) ==
    IF n = 0 THEN <<>> ELSE originalFile(n - 1, total) \o chunkBytes(n - 1, total)


\* parallel ? (settings.store.downloadWorkers || 3) : 1
downloadConcurrency ==
    IF settings.parallelDownloading
    THEN (IF settings.downloadWorkers = 0 THEN 3 ELSE settings.downloadWorkers)
    ELSE 1

\* [...session.chunks].sort((a, b) => a.index - b.index), as indices.
RECURSIVE sortedIndices(_)
sortedIndices(S) ==
    IF S = {} THEN <<>>
    ELSE LET m == CHOOSE x \in S : \A y \in S : x <= y
         IN <<m>> \o sortedIndices(S \ {m})

\* seq.filter(x => !has(x))
RECURSIVE without(_, _)
without(seq, has) ==
    IF seq = <<>> THEN <<>>
    ELSE IF Head(seq) \in has THEN without(Tail(seq), has)
         ELSE <<Head(seq)>> \o without(Tail(seq), has)

\* state.blobs is a Map<number, Blob>: its entries [key, bytes] in insertion order.
blobKeys(d) == {d.blobs[k].key : k \in 1 .. Len(d.blobs)}

\* new Blob([undefined]) holds the text "undefined", written here as one byte -1.
Undefined == <<-1>>

\* state.blobs.get(i)
blobGet(blobs, i) ==
    IF \E k \in 1 .. Len(blobs) : blobs[k].key = i
    THEN blobs[CHOOSE k \in 1 .. Len(blobs) : blobs[k].key = i].bytes
    ELSE Undefined

\* state.blobs.set(i, bytes): a key already there keeps its place.
blobSet(blobs, i, bytes) ==
    IF \E k \in 1 .. Len(blobs) : blobs[k].key = i
    THEN [k \in 1 .. Len(blobs) |-> IF blobs[k].key = i THEN [key |-> i, bytes |-> bytes]
                                     ELSE blobs[k]]
    ELSE Append(blobs, [key |-> i, bytes |-> bytes])

\* The concatenation of the first n entries' bytes.
RECURSIVE concatEntries(_, _)
concatEntries(blobs, n) ==
    IF n = 0 THEN <<>> ELSE concatEntries(blobs, n - 1) \o blobs[n].bytes

\* The concatenation of blobs.get(0) .. blobs.get(n - 1).
RECURSIVE concatByIndex(_, _)
concatByIndex(blobs, n) ==
    IF n = 0 THEN <<>> ELSE concatByIndex(blobs, n - 1) \o blobGet(blobs, n - 1)

\* The merge in the order the workers finished: the Map's own iteration order.
mergeInArrivalOrder(blobs, total) == concatEntries(blobs, Len(blobs))

\* new Blob(orderedBlobs), orderedBlobs[i] = state.blobs.get(i) for i in [0, total).
mergeBlobs(blobs, total) == concatByIndex(blobs, total)

\* dl.fileBlob is undefined
NoBlob == <<-2>>

\* A downloadLoop call that returned.
LoopDone == [pc |-> "done", pending |-> <<>>, index |-> 0, activeCount |-> 0, concurrency |-> 0]

\* downloadLoop after its while loop: the merge, up to the checksum's await.
afterLoop(d, loop) ==
    LET session == storage[DlSession]
    IN IF d.controller \in dlAborted
       THEN [dl |-> d, loop |-> LoopDone, fetches |-> {}]
       ELSE IF Len(d.blobs) # session.totalChunks
       THEN [dl |-> [d EXCEPT !.status = "error", !.error = "Download incomplete"],
             loop |-> LoopDone, fetches |-> {}]
       ELSE LET merged == [d EXCEPT !.status = "merging",
                                    !.fileBlob = mergeBlobs(d.blobs, session.totalChunks)]
            IN IF session.chunks[1].checksum # NoChecksum
               THEN [dl |-> merged, loop |-> [loop EXCEPT !.pc = "checksum"], fetches |-> {}]
               ELSE [dl |-> [merged EXCEPT !.checksumResult = "skipped", !.status = "completed"],
                     loop |-> LoopDone, fetches |-> {}]

\* One pass of downloadLoop's while loop `id`, from its condition to the next await.
loopTop(d, loop, id) ==
    IF ~(loop.index < Len(loop.pending) \/ loop.activeCount > 0)
    THEN afterLoop(d, loop)
    ELSE IF d.isPaused \/ d.controller \in dlAborted
    THEN [dl |-> [d EXCEPT !.status = "paused"], loop |-> LoopDone, fetches |-> {}]
    ELSE LET free == loop.concurrency - loop.activeCount
             left == Len(loop.pending) - loop.index
             n == IF free <= 0 THEN 0 ELSE IF free < left THEN free ELSE left
             started == [loop EXCEPT !.index = loop.index + n,
                                     !.activeCount = loop.activeCount + n,
                                     !.pc = "sleep"]
             fetches == {[loop |-> id, index |-> loop.pending[k]] :
                            k \in loop.index + 1 .. loop.index + n}
         IN [dl |-> d, loop |-> started, fetches |-> fetches]

\* activeCount-- of the loop a worker belongs to (a local of a call that may have returned).
release(loops, id) ==
    [loops EXCEPT ![id] = IF loops[id].pc = "done" THEN loops[id]
                          ELSE [loops[id] EXCEPT !.activeCount = loops[id].activeCount - 1]]

\* startDownload that starts a transfer whatever the session's isComplete says.
startAnyway(sessionId) ==
    \/ ~hasSession(sessionId)
    \/ dl.status = "downloading"

\* startDownload's early returns: no session, an incomplete session, a
\* download that is already running.
startRejected(sessionId) ==
    \/ ~hasSession(sessionId)
    \/ ~storage[sessionId].isComplete
    \/ dl.status = "downloading"

\* DownloadManager.startDownload(DlSession)
startDownload ==
    /\ Len(dlLoops) < MaxDownloadLoops
    /\ lastOp' = "startDownload"
    /\ IF startRejected(DlSession)
       THEN UNCHANGED downloadVars
       ELSE LET session == storage[DlSession]
                fresh == Len(dlLoops) + 1
                d0 == IF dl.status = "none"
                      THEN [status |-> "pending", chunksDownloaded |-> {},
                            bytesDownloaded |-> 0, totalBytes |-> session.size,
                            controller |-> 0, isPaused |-> FALSE, blobs |-> <<>>,
                            fileBlob |-> NoBlob, checksumResult |-> "none", error |-> ""]
                      ELSE dl
                d1 == [d0 EXCEPT !.isPaused = FALSE, !.status = "downloading",
                                 !.controller = fresh]
                pending == without(sortedIndices(indicesOf(session)), blobKeys(d1))
                loop == [pc |-> "sleep", pending |-> pending, index |-> 0,
                         activeCount |-> 0, concurrency |-> downloadConcurrency]
                r == loopTop(d1, loop, fresh)
            IN /\ dl' = r.dl
               /\ dlLoops' = Append(dlLoops, r.loop)
               /\ dlFetches' = dlFetches \cup r.fetches
               /\ UNCHANGED dlAborted
    /\ UNCHANGED <<registryVars, uploadVars, settings, scanVars, repairVars, mergeVars>>

\* DownloadManager.pauseDownload(DlSession)
pauseDownload ==
    /\ dl.status # "none"
    /\ dl' = [dl EXCEPT !.isPaused = TRUE, !.status = "paused"]
    /\ dlAborted' = dlAborted \cup {dl.controller}
    /\ lastOp' = "pauseDownload"
    /\ UNCHANGED <<dlLoops, dlFetches, registryVars, uploadVars, settings, scanVars, repairVars, mergeVars>>

\* DownloadManager.cancelDownload(DlSession): pauseDownload, then the
\* DownloadState leaves the map. The loops and fetches of the old state go on
\* with an object nothing can reach any more; they are dropped here.
cancelDownload ==
    /\ dl.status # "none"
    /\ dl' = NoDownload
    /\ dlAborted' = {}
    /\ dlLoops' = <<>>
    /\ dlFetches' = {}
    /\ lastOp' = "cancelDownload"
    /\ UNCHANGED <<registryVars, uploadVars, settings, scanVars, repairVars, mergeVars>>

\* downloadLoop wakes from sleep(50).
downloadLoop ==
    \E id \in 1 .. Len(dlLoops) :
        /\ dlLoops[id].pc = "sleep"
        /\ LET r == loopTop(dl, dlLoops[id], id)
           IN /\ dl' = r.dl
              /\ dlLoops' = [dlLoops EXCEPT ![id] = r.loop]
              /\ dlFetches' = dlFetches \cup r.fetches
        /\ UNCHANGED <<dlAborted, lastOp, registryVars, uploadVars, settings, scanVars, repairVars, mergeVars>>

\* processChunk: the fetch returned bytes.
fetchReturned ==
    \E f \in dlFetches :
        /\ dl' = [dl EXCEPT !.blobs = blobSet(dl.blobs, f.index,
                                               chunkBytes(f.index, storage[DlSession].totalChunks)),
                            !.chunksDownloaded = dl.chunksDownloaded \cup {f.index},
                            !.bytesDownloaded = dl.bytesDownloaded
                                + Len(chunkBytes(f.index, storage[DlSession].totalChunks))]
        /\ dlLoops' = release(dlLoops, f.loop)
        /\ dlFetches' = dlFetches \ {f}
        /\ UNCHANGED <<dlAborted, lastOp, registryVars, uploadVars, settings, scanVars, repairVars, mergeVars>>

\* processChunk: the fetch returned no bytes; the .catch of the worker.
fetchFailed ==
    \E f \in dlFetches :
        /\ dlLoops' = release(dlLoops, f.loop)
        /\ dlFetches' = dlFetches \ {f}
        /\ IF dl.controller \notin dlAborted
           THEN /\ dl' = [dl EXCEPT !.error = "Chunk failed"]
                /\ dlAborted' = dlAborted \cup {dl.controller}
           ELSE UNCHANGED <<dl, dlAborted>>
        /\ UNCHANGED <<lastOp, registryVars, uploadVars, settings, scanVars, repairVars, mergeVars>>

\* downloadLoop: calculateChecksum(finalBlob) returned.
checksumReturned ==
    \E id \in 1 .. Len(dlLoops) :
        /\ dlLoops[id].pc = "checksum"
        /\ \E calculated \in {digest(dl.fileBlob), ErrorChecksum} :
             dl' = [dl EXCEPT !.checksumResult =
                                IF calculated = storage[DlSession].chunks[1].checksum
                                THEN "pass" ELSE "fail",
                              !.status = "completed"]
        /\ dlLoops' = [dlLoops EXCEPT ![id] = LoopDone]
        /\ UNCHANGED <<dlAborted, dlFetches, lastOp, registryVars, uploadVars, settings, scanVars, repairVars, mergeVars>>

\* The indices 0 .. n-1 in the order they were discovered: oldest first (the
\* live hook) or newest first (the scanner pages backward).
orderings(n) == {[j \in 1 .. n |-> j - 1], [j \in 1 .. n |-> n - j]}

\* The indices of a session that counts as complete with an index out of
\* range: 0 .. n-2 and n (isValidChunk lets it in, addChunk counts records).
gappedOrderings(n) == {[j \in 1 .. n |-> IF j = n THEN n ELSE j - 1],
                       [j \in 1 .. n |-> IF j = 1 THEN n ELSE n - j]}

\* A registry holding one complete session, found in one of `orders`; no
\* download yet.
DownloadInitWith(orders) ==
    /\ \E order \in orders,
          sum \in {NoChecksum, digest(originalFile(DlChunks, DlChunks)), digest(<<>>),
                   ErrorChecksum} :
         storage = [k \in {DlSession} |->
                      [id |-> DlSession, totalChunks |-> DlChunks,
                       size |-> Len(originalFile(DlChunks, DlChunks)),
                       chunks |-> [j \in 1 .. DlChunks |->
                                     [index |-> order[j], messageId |-> j, checksum |-> sum]],
                       lastUpdated |-> 0, isComplete |-> TRUE]]
    /\ now = 0 /\ notifyCount = 0 /\ lastOp = "init"
    /\ dl = NoDownload /\ dlAborted = {} /\ dlLoops = <<>> /\ dlFetches = {}
    /\ up = NoUpload /\ upAborted = {} /\ upLoops = <<>> /\ upSends = {}
    /\ upPauseSignals = {} /\ pendingUploads = NotSaved /\ upTimers = 0
    /\ upOrphans = <<>>
    /\ IdleRepair
    /\ IdleScan
    /\ IdleMerge
    /\ \E parallel \in BOOLEAN, workers \in {0, MaxWorkers} :
         /\ ~parallel => workers = MaxWorkers
         /\ settings = [parallelUploads |-> FALSE, parallelCount |-> 2,
                        parallelDownloading |-> parallel, downloadWorkers |-> workers,
                        safeMode |-> TRUE]

DownloadInit == DownloadInitWith(orderings(DlChunks))

\* The same with a session that holds an out-of-range index.
GappedDownloadInit == DownloadInitWith(gappedOrderings(DlChunks))

DownloadNext ==
    \/ startDownload
    \/ pauseDownload
    \/ cancelDownload
    \/ removeChunk
    \/ downloadLoop
    \/ fetchReturned
    \/ fetchFailed
    \/ checksumReturned

DownloadSpec == DownloadInit /\ [][DownloadNext]_vars

GappedDownloadSpec == GappedDownloadInit /\ [][DownloadNext]_vars

\* Download attempts that are left to themselves: the user starts them, the
\* timers fire and every fetch and every hash settles.
AttemptNext ==
    \/ startDownload
    \/ downloadLoop
    \/ fetchReturned
    \/ fetchFailed
    \/ checksumReturned

AttemptFairness ==
    /\ WF_vars(downloadLoop)
    /\ WF_vars(fetchReturned \/ fetchFailed)
    /\ WF_vars(checksumReturned)

AttemptSpec == DownloadInit /\ [][AttemptNext]_vars /\ AttemptFairness

(***************************************************************************)
(* handleFileMerge: the merge behind the Download button of a chunk        *)
(* message. It works on session.chunks itself, the array of the registry.  *)
(***************************************************************************)
\* chunks.sort((a, b) => a.index - b.index), also of a copy [...session.chunks]
RECURSIVE sortByIndex(_)
sortByIndex(chunks) ==
    IF chunks = <<>> THEN <<>>
    ELSE LET m == CHOOSE j \in 1 .. Len(chunks) :
                     \A k \in 1 .. Len(chunks) :
                         \/ chunks[j].index < chunks[k].index
                         \/ (chunks[j].index = chunks[k].index /\ j <= k)
         IN <<chunks[m]>> \o
            sortByIndex([k \in 1 .. Len(chunks) - 1 |->
                            IF k < m THEN chunks[k] ELSE chunks[k + 1]])

\* new Blob(blobParts)
RECURSIVE concatParts(_)
concatParts(parts) ==
    IF parts = <<>> THEN <<>> ELSE Head(parts) \o concatParts(Tail(parts))

\* The array a handleFileMerge call iterates: session.chunks itself as long
\* as the registry holds that array, so a chunk addChunk pushes and the sort
\* of another call are seen by the loop.
chunksOf(m) == IF m.live THEN storage[m.timestamp].chunks ELSE m.chunks

\* handleClick of the Download button of a message of session `timestamp`
\* whose body says `total`, and handleFileMerge up to its first await: the
\* array of the registry is sorted in place and the first chunk is asked for.
\* A button is disabled until the call it made has settled; the buttons of
\* other messages are not.
handleFileMerge ==
    /\ \E b \in Buttons, timestamp \in DOMAIN storage, total \in 1 .. DlChunks :
         LET chunks == sortByIndex(storage[timestamp].chunks)
         IN /\ merge[b].pc \in {"idle", "done", "failed"}
            /\ Len(storage[timestamp].chunks) = total
            /\ storage' = [storage EXCEPT ![timestamp].chunks = chunks]
            /\ merge' = [merge EXCEPT ![b] =
                            [pc |-> "fetch", timestamp |-> timestamp, live |-> TRUE,
                             chunks |-> <<>>, chunk |-> chunks[1],
                             total |-> storage[timestamp].totalChunks, blobParts |-> <<>>]]
    /\ lastOp' = "handleFileMerge"
    /\ UNCHANGED <<now, notifyCount, downloadVars, uploadVars, settings, repairVars, scanVars>>

\* handleFileMerge after its loop: the file, and the hash if chunks[0] names one.
mergeFinished(m, blobParts) ==
    LET finalFile == concatParts(blobParts)
    IN IF chunksOf(m)[1].checksum # NoChecksum
       THEN [pc |-> "hash", timestamp |-> m.timestamp, live |-> m.live, chunks |-> m.chunks,
             finalFile |-> finalFile]
       ELSE [pc |-> "done", finalFile |-> finalFile, verdict |-> "skipped"]

\* handleFileMerge: fetcher(chunk.url) returned the bytes of the chunk; the
\* for-of loop goes on to the next position of the array as it is now.
mergeFetched ==
    /\ \E b \in Buttons :
         /\ merge[b].pc = "fetch"
         /\ LET m == merge[b]
                blobParts == Append(m.blobParts, chunkBytes(m.chunk.index, m.total))
            IN merge' = [merge EXCEPT ![b] =
                            IF Len(blobParts) < Len(chunksOf(m))
                            THEN [m EXCEPT !.blobParts = blobParts,
                                           !.chunk = chunksOf(m)[Len(blobParts) + 1]]
                            ELSE mergeFinished(m, blobParts)]
    /\ UNCHANGED <<lastOp, registryVars, downloadVars, uploadVars, settings, repairVars, scanVars>>

\* handleFileMerge: fetcher(chunk.url) returned nothing or threw; the catch.
mergeFetchFailed ==
    /\ \E b \in Buttons :
         /\ merge[b].pc = "fetch"
         /\ merge' = [merge EXCEPT ![b] = [pc |-> "failed"]]
    /\ UNCHANGED <<lastOp, registryVars, downloadVars, uploadVars, settings, repairVars, scanVars>>

\* handleFileMerge: calculateChecksum(finalFile) returned; the file is handed
\* to the browser whatever the comparison says.
mergeHashed ==
    /\ \E b \in Buttons :
         /\ merge[b].pc = "hash"
         /\ \E mergedChecksum \in {digest(merge[b].finalFile), ErrorChecksum} :
              merge' = [merge EXCEPT ![b] =
                          [pc |-> "done", finalFile |-> merge[b].finalFile,
                           verdict |-> IF mergedChecksum = chunksOf(merge[b])[1].checksum
                                       THEN "pass" ELSE "fail"]]
    /\ UNCHANGED <<lastOp, registryVars, downloadVars, uploadVars, settings, repairVars, scanVars>>

\* The Download buttons of the chunk messages: all read the same session, a
\* chunk can be registered and a carrier message can be deleted under them.
MergeNext ==
    \/ handleFileMerge
    \/ mergeFetched
    \/ mergeFetchFailed
    \/ mergeHashed
    \/ carrierMessageCreate
    \/ removeChunk

MergeSpec == DownloadInit /\ [][MergeNext]_vars

\* The Download buttons next to the download engine, which reads the array
\* the buttons sort.
MergeDownloadNext ==
    \/ handleFileMerge
    \/ mergeFetched
    \/ mergeFetchFailed
    \/ mergeHashed
    \/ removeChunk
    \/ startDownload
    \/ downloadLoop
    \/ fetchReturned
    \/ checksumReturned

MergeDownloadSpec == DownloadInit /\ [][MergeDownloadNext]_vars

(***************************************************************************)
(* UploadManager: one UploadSession.                                       *)
(***************************************************************************)
\* session.file is undefined
NoFile == [name |-> "", size |-> 0]

\* The File objects a caller can hand over: the original and three others.
Files == [name : {"a.bin", "b.bin"}, size : {UpFileSize, UpFileSize + 1}]

\* The bytes of a file of `size` units.
fileBytes(size) == [k \in 1 .. size |-> k - 1]

\* The file startUpload is given.
OriginalFile == [name |-> "a.bin", size |-> UpFileSize]

\* Math.ceil(size / chunkSize)
ceilDiv(size, chunkSize) == (size + chunkSize - 1) \div chunkSize

\* parallel ? (settings.store.parallelCount || 2) : 1
uploadConcurrency ==
    IF settings.parallelUploads
    THEN (IF settings.parallelCount = 0 THEN 2 ELSE settings.parallelCount)
    ELSE 1

\* A progress computation that takes every chunk for a full one.
fullChunkLength(u, idx) == u.chunkSize

\* updateProgress: the size of chunk idx.
chunkLength(u, idx) ==
    IF idx = u.totalChunks - 1
    THEN (IF u.size % u.chunkSize = 0 THEN u.chunkSize ELSE u.size % u.chunkSize)
    ELSE u.chunkSize

\* updateProgress: the sum of the sizes of the chunks in S.
RECURSIVE uploadedBytes(_, _)
uploadedBytes(u, S) ==
    IF S = {} THEN 0
    ELSE LET idx == CHOOSE x \in S : TRUE
         IN chunkLength(u, idx) + uploadedBytes(u, S \ {idx})

\* updateProgress(session)
updateProgress(u) == [u EXCEPT !.bytesUploaded = uploadedBytes(u, u.completedIndices)]

\* A processUpload call that returned.
UploadDone == [pc |-> "done", pending |-> <<>>, index |-> 0, activeCount |-> 0, concurrency |-> 0,
               fileChecksum |-> NoChecksum]

\* A processUpload call awaiting calculateChecksum(session.file).
UploadEntered == [pc |-> "checksum", pending |-> <<>>, index |-> 0, activeCount |-> 0,
                  concurrency |-> 0, fileChecksum |-> NoChecksum]

\* The sends counted as in flight: the attachment upload and the message POST.
inFlight(sends) == {s \in sends : s.phase \in {"upload", "post"}}

\* activeCount-- of the processUpload call a worker belongs to.
upRelease(loops, id) ==
    [loops EXCEPT ![id] = IF loops[id].pc = "done" THEN loops[id]
                          ELSE [loops[id] EXCEPT !.activeCount = loops[id].activeCount - 1]]

\* activeCount-- for every worker in S.
RECURSIVE upReleaseAll(_, _)
upReleaseAll(loops, S) ==
    IF S = {} THEN loops
    ELSE LET s == CHOOSE x \in S : TRUE
         IN upReleaseAll(upRelease(loops, s.loop), S \ {s})

\* uploadChunk's abortHandler: the sends that listen to controller c. They
\* reject with "Aborted"; the listener is removed on "complete" and "error".
cancelled(sends, c) == {s \in sends : s.phase = "upload" /\ s.signal = c}

\* processUpload after its while loop.
uploadFinished(u, loop) ==
    [up |-> [u EXCEPT !.status = "completed"], loop |-> UploadDone, sends |-> {}]

\* processUpload's while loops for the call `id`: upOuter from the outer
\* condition, upInner from the inner one, each up to the next await.
RECURSIVE upOuter(_, _, _)
RECURSIVE upInner(_, _, _)
upOuter(u, loop, id) ==
    IF ~(loop.index < Len(loop.pending) \/ loop.activeCount > 0)
    THEN uploadFinished(u, loop)
    ELSE IF u.isPaused \/ u.controller \in upAborted
    THEN [up |-> [u EXCEPT !.status = "paused"], loop |-> UploadDone, sends |-> {}]
    ELSE upInner(u, [loop EXCEPT !.concurrency = uploadConcurrency], id)

upInner(u, loop, id) ==
    IF loop.activeCount < loop.concurrency /\ loop.index < Len(loop.pending) /\ ~u.isPaused
    THEN [up |-> u,
          loop |-> [loop EXCEPT !.activeCount = loop.activeCount + 1,
                                !.index = loop.index + 1,
                                !.pc = "delay"],
          sends |-> {[loop |-> id, index |-> loop.pending[loop.index + 1],
                      phase |-> "hash", signal |-> 0, checksum |-> loop.fileChecksum]}]
    ELSE IF loop.activeCount > 0
    THEN [up |-> u, loop |-> [loop EXCEPT !.pc = "poll"], sends |-> {}]
    ELSE IF loop.index >= Len(loop.pending)
    THEN uploadFinished(u, loop)
    ELSE upOuter(u, loop, id)

\* processUpload from its entry to the await of calculateChecksum.
processUploadEnter(u) ==
    IF u.file = NoFile THEN u
    ELSE updateProgress([u EXCEPT !.status = "uploading"])

\* saveState that writes every session, finished ones too.
saveStateOfAll(u) ==
    IF ~u.tracked THEN NotSaved
    ELSE
    [saved |-> TRUE, id |-> u.id, channelId |-> u.channelId, name |-> u.name,
     size |-> u.size, status |-> u.status, chunkSize |-> u.chunkSize,
     totalChunks |-> u.totalChunks, bytesUploaded |-> u.bytesUploaded,
     error |-> u.error, isPaused |-> u.isPaused,
     completedIndices |-> sortedIndices(u.completedIndices)]

\* saveState: the JSON entry of the session in settings.store.pendingUploads,
\* written from the sessions of the map. file and controller are left out,
\* completedIndices becomes an array.
saveState(u) ==
    IF ~u.tracked \/ u.status \in {"completed", "error"} THEN NotSaved
    ELSE [saved |-> TRUE, id |-> u.id, channelId |-> u.channelId, name |-> u.name,
          size |-> u.size, status |-> u.status, chunkSize |-> u.chunkSize,
          totalChunks |-> u.totalChunks, bytesUploaded |-> u.bytesUploaded,
          error |-> u.error, isPaused |-> u.isPaused,
          completedIndices |-> sortedIndices(u.completedIndices)]

\* upOrphans holds, oldest first, the session objects init() replaced in the
\* map while they had work, each with the number of processUpload calls made
\* when it was replaced: the calls of an object are the ones made after the
\* calls of the objects before it. ownerOf(id) is the place in upOrphans of
\* the object that call `id` was given, 0 for the session `up`.
ownerOf(id) ==
    IF \E j \in 1 .. Len(upOrphans) : id <= upOrphans[j].last
    THEN CHOOSE j \in 1 .. Len(upOrphans) :
             /\ id <= upOrphans[j].last
             /\ \A k \in 1 .. j - 1 : id > upOrphans[k].last
    ELSE 0

\* The `session` of processUpload call `id` and of its workers.
sessionOf(id) == IF ownerOf(id) = 0 THEN up ELSE upOrphans[ownerOf(id)].session

\* The j-th of `orphans` is still referenced: one of its calls has not
\* returned, or a send of one of its calls is outstanding.
atWork(orphans, j, loops, sends) ==
    \E k \in 1 .. orphans[j].last :
        /\ j > 1 => k > orphans[j - 1].last
        /\ loops[k].pc # "done" \/ \E s \in sends : s.loop = k

\* The objects of `orphans` from the j-th on that are still referenced; the
\* others are garbage.
RECURSIVE referenced(_, _, _, _)
referenced(orphans, j, loops, sends) ==
    IF j > Len(orphans) THEN <<>>
    ELSE (IF atWork(orphans, j, loops, sends) THEN <<orphans[j]>> ELSE <<>>)
         \o referenced(orphans, j + 1, loops, sends)

\* A task of call `id` leaves its session object as u, the calls as loops
\* and the sends as sends.
setSession(id, u, loops, sends) ==
    /\ up' = IF ownerOf(id) = 0 THEN u ELSE up
    /\ upOrphans' = referenced(IF ownerOf(id) = 0 THEN upOrphans
                               ELSE [upOrphans EXCEPT ![ownerOf(id)].session = u],
                               1, loops, sends)

\* The session of the map after that task, which emitChange saves.
mapSession(id, u) == IF ownerOf(id) = 0 THEN u ELSE up

\* The sends of the calls made for the session `up`.
ownSends == {s \in upSends : ownerOf(s.loop) = 0}

\* The session `up` has no processUpload call running and no send outstanding.
ownWoundDown ==
    /\ ownSends = {}
    /\ \A k \in 1 .. Len(upLoops) : ownerOf(k) = 0 => upLoops[k].pc = "done"

\* The session objects outside the map after a new session was set: the one
\* `up` stood for joins them while a call or a send still references it.
orphaned ==
    IF up.status = "none" \/ ownWoundDown THEN upOrphans
    ELSE Append(upOrphans, [session |-> up, last |-> Len(upLoops)])

\* UploadManager.startUpload(file, chunkSize). The map holds one session: a
\* new one is created when there is none or when the old one was deleted,
\* whatever the calls and the sends of the deleted one are doing.
startUpload ==
    /\ IF up.status = "none" THEN TRUE ELSE ~up.tracked
    /\ Len(upLoops) < MaxUploadLoops
    /\ LET file == OriginalFile
           fresh == Len(upLoops) + 1
           session == [id |-> 1, channelId |-> "channel",
                       file |-> file, name |-> file.name, size |-> file.size,
                       status |-> "pending", chunkSize |-> UpChunkSize,
                       totalChunks |-> ceilDiv(file.size, UpChunkSize),
                       completedIndices |-> {}, bytesUploaded |-> 0, error |-> "",
                       controller |-> fresh, isPaused |-> FALSE, tracked |-> TRUE]
       IN /\ up' = processUploadEnter(session)
          /\ upLoops' = Append(upLoops, UploadEntered)
    /\ upOrphans' = orphaned
    /\ pendingUploads' = saveState(up')
    /\ UNCHANGED <<upAborted, upSends, upPauseSignals, upTimers, registryVars, downloadVars,
                   lastOp, settings, scanVars, repairVars, mergeVars>>

\* UploadManager.resurrectSessionWithParams(file, existingChunks, totalChunks,
\* chunkSize, channelId, originalId): a session that starts with existingChunks
\* as its completed indices and the bytes they stand for, then processUpload.
\* Nothing in the plugin calls it; it is given the file and the chunk size of
\* startUpload and any set of that file's chunk indices.
resurrectSessionWithParams ==
    /\ IF up.status = "none" THEN TRUE ELSE ~up.tracked
    /\ Len(upLoops) < MaxUploadLoops
    /\ \E existingChunks \in SUBSET (0 .. ceilDiv(OriginalFile.size, UpChunkSize) - 1) :
         LET file == OriginalFile
             fresh == Len(upLoops) + 1
             session == [id |-> 1, channelId |-> "channel",
                         file |-> file, name |-> file.name, size |-> file.size,
                         status |-> "pending", chunkSize |-> UpChunkSize,
                         totalChunks |-> ceilDiv(file.size, UpChunkSize),
                         completedIndices |-> existingChunks, bytesUploaded |-> 0,
                         error |-> "", controller |-> fresh, isPaused |-> FALSE,
                         tracked |-> TRUE]
         IN /\ up' = processUploadEnter(updateProgress(session))
            /\ upLoops' = Append(upLoops, UploadEntered)
    /\ upOrphans' = orphaned
    /\ pendingUploads' = saveState(up')
    /\ UNCHANGED <<upAborted, upSends, upPauseSignals, upTimers, registryVars, downloadVars,
                   lastOp, settings, scanVars, repairVars, mergeVars>>

\* UploadManager.resumeUpload(id, file); file = NoFile when none is passed.
resumeUploadWith(file) ==
    /\ up.status # "none"
    /\ up.tracked
    /\ Len(upLoops) < MaxUploadLoops
    /\ IF up.file = NoFile /\ (file = NoFile \/ file.name # up.name \/ file.size # up.size)
       THEN UNCHANGED <<up, upLoops, pendingUploads>>
       ELSE LET attached == IF up.file = NoFile THEN [up EXCEPT !.file = file] ELSE up
                fresh == Len(upLoops) + 1
            IN IF attached.status = "uploading"
               THEN up' = attached /\ UNCHANGED <<upLoops, pendingUploads>>
               ELSE /\ up' = processUploadEnter([attached EXCEPT !.isPaused = FALSE,
                                                                 !.status = "pending",
                                                                 !.controller = fresh])
                    /\ upLoops' = Append(upLoops, UploadEntered)
                    /\ pendingUploads' = saveState(up')
    /\ UNCHANGED <<upOrphans, upAborted, upSends, upPauseSignals, upTimers, registryVars,
                   downloadVars, lastOp, settings, scanVars, repairVars, mergeVars>>

resumeUpload == \E file \in Files \cup {NoFile} : resumeUploadWith(file)

\* UploadManager.pauseUpload(id), with the abort handlers and the .catch of
\* the sends it cancels.
pauseUpload ==
    /\ up.status # "none"
    /\ up.tracked
    /\ up' = [up EXCEPT !.isPaused = TRUE, !.status = "paused"]
    /\ upAborted' = upAborted \cup {up.controller}
    /\ upSends' = upSends \ cancelled(upSends, up.controller)
    /\ upLoops' = upReleaseAll(upLoops, cancelled(upSends, up.controller))
    /\ upPauseSignals' = IF inFlight(ownSends) # {} THEN upPauseSignals \cup {up.controller}
                         ELSE upPauseSignals
    /\ pendingUploads' = saveState(up')
    /\ UNCHANGED <<upOrphans, upTimers, registryVars, downloadVars, lastOp, settings, scanVars,
                   repairVars, mergeVars>>

\* The user switches parallel uploading on or off in the settings.
changeSettings ==
    /\ settings' = [settings EXCEPT !.parallelUploads = ~settings.parallelUploads]
    /\ UNCHANGED <<uploadVars, registryVars, downloadVars, lastOp, repairVars, scanVars, mergeVars>>

\* UploadManager.deleteUpload(id): the session is aborted and leaves the map,
\* with the abort handlers of the sends it cancels. The loops and the sends
\* that are left go on with the session object.
deleteUpload ==
    /\ up.status # "none"
    /\ up.tracked
    /\ up' = [up EXCEPT !.isPaused = TRUE, !.tracked = FALSE]
    /\ upAborted' = upAborted \cup {up.controller}
    /\ upSends' = upSends \ cancelled(upSends, up.controller)
    /\ upLoops' = upReleaseAll(upLoops, cancelled(upSends, up.controller))
    /\ pendingUploads' = saveState(up')
    /\ UNCHANGED <<upOrphans, upPauseSignals, upTimers, registryVars, downloadVars, lastOp,
                   settings, scanVars, repairVars, mergeVars>>

\* loadState: the session built from a stored entry, with a new controller.
loadStateOf(entry) ==
    IF ~entry.saved THEN NoUpload
    ELSE [id |-> entry.id, channelId |-> entry.channelId, file |-> NoFile,
          name |-> entry.name, size |-> entry.size, status |-> "paused",
          chunkSize |-> entry.chunkSize, totalChunks |-> entry.totalChunks,
          completedIndices |-> {entry.completedIndices[k] :
                                   k \in 1 .. Len(entry.completedIndices)},
          bytesUploaded |-> entry.bytesUploaded, error |-> entry.error,
          controller |-> 0, isPaused |-> TRUE, tracked |-> TRUE]

\* The client is reloaded and the plugin starts: UploadManager.init() reads
\* back what saveState wrote at the last emitChange. Nothing of the old page
\* survives.
loadState ==
    /\ up.status # "none"
    /\ up' = loadStateOf(pendingUploads)
    /\ upOrphans' = <<>>
    /\ upAborted' = {}
    /\ upLoops' = <<>>
    /\ upSends' = {}
    /\ upPauseSignals' = {}
    /\ upTimers' = 0
    /\ UNCHANGED <<pendingUploads, registryVars, downloadVars, lastOp, settings, scanVars, repairVars, mergeVars>>

\* The plugin is stopped and started on the page it runs in: start() calls
\* UploadManager.init() again and loadState sets the stored entry into the
\* map, with a new controller. stop() leaves the uploads alone: the calls
\* and the sends of the session that was in the map go on with that object.
init ==
    /\ up.status # "none"
    /\ IF ~pendingUploads.saved
       THEN UNCHANGED <<up, upOrphans, upAborted>>
       ELSE /\ up' = loadStateOf(pendingUploads)
            /\ upOrphans' = orphaned
            /\ upAborted' = upAborted \ {0}
    /\ UNCHANGED <<upLoops, upSends, upPauseSignals, pendingUploads, upTimers, registryVars,
                   downloadVars, lastOp, settings, scanVars, repairVars, mergeVars>>

\* The Refresh button of the dashboard: UploadManager.emitChange() with no
\* task before it, the listeners and saveState of the map as it is. The
\* button's ChunkManager.emitChange() calls the registry's listeners only and
\* changes no state of the registry.
emitChange ==
    /\ pendingUploads' = IF up.status = "none" THEN NotSaved ELSE saveState(up)
    /\ UNCHANGED <<up, upOrphans, upAborted, upLoops, upSends, upPauseSignals, upTimers,
                   registryVars, downloadVars, lastOp, settings, scanVars, repairVars, mergeVars>>

\* processUpload resumes after an await: calculateChecksum, the delay after a
\* dispatch (sleep(base + jitter)) or the poll (sleep(100)). calculateChecksum
\* returns the hash of the file, or "error" when hashing failed; canFail
\* says whether hashing can fail where the upload runs.
processUploadWith(canFail) ==
    \E id \in 1 .. Len(upLoops) :
        /\ upLoops[id].pc \in {"checksum", "delay", "poll"}
        /\ LET loop == upLoops[id]
               session == sessionOf(id)
               pendingIndices == without(sortedIndices(0 .. session.totalChunks - 1),
                                         session.completedIndices)
           IN \E fileChecksum \in IF loop.pc # "checksum" THEN {loop.fileChecksum}
                                  ELSE IF canFail
                                  THEN {digest(fileBytes(session.file.size)), ErrorChecksum}
                                  ELSE {digest(fileBytes(session.file.size))} :
                LET r == IF loop.pc = "checksum"
                         THEN upOuter(session, [loop EXCEPT !.pending = pendingIndices,
                                                            !.fileChecksum = fileChecksum], id)
                         ELSE IF loop.pc = "delay" THEN upInner(session, loop, id)
                         ELSE upOuter(session, loop, id)
                IN /\ upLoops' = [upLoops EXCEPT ![id] = r.loop]
                   /\ upSends' = upSends \cup r.sends
                   /\ setSession(id, r.up, upLoops', upSends')
                   /\ pendingUploads' = IF r.loop.pc = "done"
                                        THEN saveState(mapSession(id, r.up))
                                        ELSE pendingUploads
        /\ UNCHANGED <<upAborted, upPauseSignals, upTimers, registryVars, downloadVars, lastOp,
                       settings, scanVars, repairVars, mergeVars>>

\* processUpload where crypto.subtle works.
processUpload == processUploadWith(FALSE)

\* processUpload where hashing the file can fail.
processUploadHashing == processUploadWith(TRUE)

\* processChunk after the chunk's hash: the call of uploadChunk with
\* session.controller.signal. An aborted signal rejects at once.
processChunk ==
    \E s \in upSends :
        /\ s.phase = "hash"
        /\ IF sessionOf(s.loop).controller \in upAborted
           THEN /\ upSends' = upSends \ {s}
                /\ upLoops' = upRelease(upLoops, s.loop)
           ELSE /\ upSends' = (upSends \ {s}) \cup
                                {[s EXCEPT !.phase = "upload",
                                           !.signal = sessionOf(s.loop).controller]}
                /\ UNCHANGED upLoops
        /\ setSession(s.loop, sessionOf(s.loop), upLoops', upSends')
        /\ UNCHANGED <<upAborted, upPauseSignals, pendingUploads, upTimers,
                       registryVars, downloadVars, lastOp, settings, scanVars, repairVars,
                       mergeVars>>

\* uploadChunk: upload.on("complete") with an uploadedFilename; RestAPI.post is sent.
uploadComplete ==
    \E s \in upSends :
        /\ s.phase = "upload"
        /\ upSends' = (upSends \ {s}) \cup {[s EXCEPT !.phase = "post"]}
        /\ UNCHANGED <<up, upOrphans, upAborted, upLoops, upPauseSignals, pendingUploads, upTimers,
                       registryVars, downloadVars, lastOp, settings, scanVars, repairVars, mergeVars>>

\* The session of a send after RestAPI.post resolved: completedIndices.add(i)
\* and updateProgress.
afterPost(s) ==
    updateProgress([sessionOf(s.loop) EXCEPT
                       !.completedIndices = sessionOf(s.loop).completedIndices \cup {s.index}])

\* postResolved without the emitChange at the end of processChunk.
postResolvedUnsaved ==
    \E s \in upSends :
        /\ s.phase = "post"
        /\ upSends' = upSends \ {s}
        /\ upLoops' = upRelease(upLoops, s.loop)
        /\ setSession(s.loop, afterPost(s), upLoops', upSends')
        /\ UNCHANGED <<upAborted, upPauseSignals, pendingUploads, upTimers, registryVars,
                       downloadVars, lastOp, settings, scanVars, repairVars, mergeVars>>

\* RestAPI.post resolved: the rest of processChunk and its .then.
postResolved ==
    \E s \in upSends :
        /\ s.phase = "post"
        /\ upSends' = upSends \ {s}
        /\ upLoops' = upRelease(upLoops, s.loop)
        /\ setSession(s.loop, afterPost(s), upLoops', upSends')
        /\ pendingUploads' = saveState(mapSession(s.loop, afterPost(s)))
        /\ UNCHANGED <<upAborted, upPauseSignals, upTimers, registryVars, downloadVars, lastOp,
                       settings, scanVars, repairVars, mergeVars>>

\* The send failed (upload.on("error"), no uploadedFilename, RestAPI.post
\* rejected), with a rate limit (429) or another error: the .catch of the worker.
sendFailed ==
    \E s \in inFlight(upSends), isRateLimit \in BOOLEAN :
        LET loops == upRelease(upLoops, s.loop)
            sends == upSends \ {s}
            session == sessionOf(s.loop)
            paused == [session EXCEPT !.isPaused = TRUE, !.status = "paused"]
            failed == [session EXCEPT !.error = "failed", !.status = "error"]
        IN /\ IF settings.safeMode /\ isRateLimit
              THEN /\ upLoops' = loops
                   /\ upSends' = sends
                   /\ setSession(s.loop, paused, upLoops', upSends')
                   /\ pendingUploads' = saveState(mapSession(s.loop, paused))
                   /\ upTimers' = upTimers + 1
                   /\ UNCHANGED upAborted
              ELSE IF session.controller \notin upAborted
              THEN /\ upAborted' = upAborted \cup {session.controller}
                   /\ upSends' = sends \ cancelled(sends, session.controller)
                   /\ upLoops' = upReleaseAll(loops, cancelled(sends, session.controller))
                   /\ setSession(s.loop, failed, upLoops', upSends')
                   /\ pendingUploads' = saveState(mapSession(s.loop, failed))
                   /\ UNCHANGED upTimers
              ELSE /\ upLoops' = loops
                   /\ upSends' = sends
                   /\ setSession(s.loop, session, upLoops', upSends')
                   /\ UNCHANGED <<upAborted, pendingUploads, upTimers>>
           /\ UNCHANGED <<upPauseSignals, registryVars, downloadVars, lastOp, settings, scanVars,
                          repairVars, mergeVars>>

\* The safe mode cooldown ran out: the callback of setTimeout in the .catch
\* of the worker. It writes a log line when the session is paused.
safeModeCooldown ==
    /\ upTimers > 0
    /\ upTimers' = upTimers - 1
    /\ UNCHANGED <<upOrphans, up, upAborted, upLoops, upSends, upPauseSignals, pendingUploads,
                   registryVars, downloadVars, lastOp, settings, scanVars, repairVars, mergeVars>>

\* UploadManager.sessions is empty at load; the options are the user's.
UploadInit ==
    /\ storage = <<>> /\ now = 0 /\ notifyCount = 0 /\ lastOp = "init"
    /\ dl = NoDownload /\ dlAborted = {} /\ dlLoops = <<>> /\ dlFetches = {}
    /\ up = NoUpload /\ upAborted = {} /\ upLoops = <<>> /\ upSends = {}
    /\ upPauseSignals = {} /\ pendingUploads = NotSaved /\ upTimers = 0
    /\ upOrphans = <<>>
    /\ IdleRepair
    /\ IdleScan
    /\ IdleMerge
    /\ \E parallel \in BOOLEAN, safe \in BOOLEAN :
         settings = [parallelUploads |-> parallel, parallelCount |-> MaxWorkers,
                     parallelDownloading |-> TRUE, downloadWorkers |-> 3,
                     safeMode |-> safe]

\* The upload engine with the options the page was loaded with; the options
\* change during an upload in LiveSettingsSpec.
UploadNext ==
    \/ startUpload
    \/ resumeUpload
    \/ pauseUpload
    \/ loadState
    \/ processUpload
    \/ processChunk
    \/ uploadComplete
    \/ postResolved
    \/ sendFailed
    \/ safeModeCooldown

UploadSpec == UploadInit /\ [][UploadNext]_vars

\* The upload engine started by resurrectSessionWithParams.
ResurrectNext ==
    \/ resurrectSessionWithParams
    \/ resumeUpload
    \/ pauseUpload
    \/ processUpload
    \/ processChunk
    \/ uploadComplete
    \/ postResolved
    \/ sendFailed
    \/ safeModeCooldown

ResurrectSpec == UploadInit /\ [][ResurrectNext]_vars

\* Uploads that the user can also delete and that the plugin reads back from
\* the store, at a restart and on the live page, with the settings left alone.
DeleteUploadNext ==
    \/ startUpload
    \/ resumeUpload
    \/ pauseUpload
    \/ deleteUpload
    \/ loadState
    \/ init
    \/ emitChange
    \/ processUpload
    \/ processChunk
    \/ uploadComplete
    \/ postResolved
    \/ sendFailed
    \/ safeModeCooldown

\* The load with parallel uploading switched off (one worker for each
\* processUpload call) and safe mode on: a send then fails with a rate limit
\* (the session is paused) or with another error, and the other error is
\* what every failure is with safe mode off (sendFailed).
SequentialUploadInit == UploadInit /\ ~settings.parallelUploads /\ settings.safeMode

\* The load with parallel uploading switched on.
ParallelUploadInit == UploadInit /\ settings.parallelUploads /\ settings.safeMode

DeleteUploadSpec == SequentialUploadInit /\ [][DeleteUploadNext]_vars

\* The same uploads with MaxWorkers workers for each processUpload call.
ParallelDeleteUploadSpec == ParallelUploadInit /\ [][DeleteUploadNext]_vars

\* Uploads where hashing the file can fail.
HashingUploadNext ==
    \/ startUpload
    \/ resumeUpload
    \/ pauseUpload
    \/ processUploadHashing
    \/ processChunk
    \/ uploadComplete
    \/ postResolved
    \/ sendFailed
    \/ safeModeCooldown

HashingUploadSpec == UploadInit /\ [][HashingUploadNext]_vars

\* updateProgress(session) on a session whose completedIndices were restored.
progressUpdated ==
    /\ up.status # "none"
    /\ lastOp # "updateProgress"
    /\ up' = updateProgress(up)
    /\ lastOp' = "updateProgress"
    /\ UNCHANGED <<upOrphans, upAborted, upLoops, upSends, upPauseSignals, pendingUploads, upTimers,
                   registryVars, downloadVars, settings, scanVars, repairVars, mergeVars>>

\* A session of any size and chunk size with any set of completed chunks,
\* before its progress is computed.
ProgressInit ==
    /\ storage = <<>> /\ now = 0 /\ notifyCount = 0 /\ lastOp = "init"
    /\ dl = NoDownload /\ dlAborted = {} /\ dlLoops = <<>> /\ dlFetches = {}
    /\ upAborted = {} /\ upLoops = <<>> /\ upSends = {}
    /\ upPauseSignals = {} /\ pendingUploads = NotSaved /\ upTimers = 0
    /\ upOrphans = <<>>
    /\ IdleRepair
    /\ IdleScan
    /\ IdleMerge
    /\ settings = [parallelUploads |-> FALSE, parallelCount |-> 2,
                   parallelDownloading |-> TRUE, downloadWorkers |-> 3, safeMode |-> TRUE]
    /\ \E size \in 1 .. MaxProgressSize, chunkSize \in 1 .. MaxProgressChunk :
         \E completed \in SUBSET (0 .. ceilDiv(size, chunkSize) - 1) :
            up = [id |-> 1, channelId |-> "channel",
                  file |-> [name |-> "a.bin", size |-> size], name |-> "a.bin", size |-> size,
                  status |-> "paused", chunkSize |-> chunkSize,
                  totalChunks |-> ceilDiv(size, chunkSize),
                  completedIndices |-> completed, bytesUploaded |-> 0, error |-> "",
                  controller |-> 0, isPaused |-> TRUE, tracked |-> TRUE]

ProgressNext == progressUpdated

ProgressSpec == ProgressInit /\ [][ProgressNext]_vars

\* The user switches parallel downloading on or off in the settings.
changeDownloadSettings ==
    /\ settings' = [settings EXCEPT !.parallelDownloading = ~settings.parallelDownloading]
    /\ UNCHANGED <<uploadVars, registryVars, downloadVars, lastOp, repairVars, scanVars, mergeVars>>

\* Both engines at work while the user changes the worker options: no
\* pause, no failure.
LiveSettingsNext ==
    \/ startDownload
    \/ downloadLoop
    \/ fetchReturned
    \/ checksumReturned
    \/ changeDownloadSettings
    \/ startUpload
    \/ processUpload
    \/ processChunk
    \/ uploadComplete
    \/ postResolved
    \/ changeSettings

LiveSettingsSpec == DownloadInit /\ [][LiveSettingsNext]_vars

\* An upload in safe mode that the user starts and then leaves alone.
SafeModeInit == UploadInit /\ settings.safeMode

SafeModeNext ==
    \/ startUpload
    \/ processUpload
    \/ processChunk
    \/ uploadComplete
    \/ postResolved
    \/ sendFailed
    \/ safeModeCooldown

\* Timers fire, sleeps end and requests settle; a send need not fail.
SafeModeFairness ==
    /\ WF_vars(processUpload)
    /\ WF_vars(processChunk)
    /\ WF_vars(uploadComplete)
    /\ WF_vars(postResolved)
    /\ WF_vars(safeModeCooldown)

SafeModeSpec == SafeModeInit /\ [][SafeModeNext]_vars /\ SafeModeFairness

(***************************************************************************)
(* Verify and Repair: ChunkManager.verifySessionAgainstFile and            *)
(* DownloadManager.repairSession, for the session DlSession.               *)
(* Sizes are counted in units of 0.1 MiB; byte k of the reference file     *)
(* has the value k.                                                        *)
(***************************************************************************)
\* The chunk size the session was uploaded with: the 9.5 MB preset.
PresetChunkSize == 95

\* const concurrency = 4
verifyConcurrency == 4

\* The sizes of the reference file: two chunks of the preset.
FileSizes == {MaxFileSize - 40, MaxFileSize}

\* Math.min
min(a, b) == IF a < b THEN a ELSE b

\* Blob.slice(start, end): the bytes start .. end - 1, clamped to the blob.
slice(bytes, start, end) == SubSeq(bytes, min(start, Len(bytes)) + 1, min(end, Len(bytes)))

\* The bytes the uploader cut for chunk i of a file.
uploadedSlice(bytes, i) ==
    slice(bytes, i * PresetChunkSize, min((i + 1) * PresetChunkSize, Len(bytes)))

\* Bytes of the same length that differ from `bytes` everywhere.
corrupted(bytes) == [k \in 1 .. Len(bytes) |-> -1 - bytes[k]]

\* chunks.find(c => c.index === i): its position, 0 when there is none.
findIndex(chunks, i) ==
    IF \E j \in 1 .. Len(chunks) : chunks[j].index = i
    THEN CHOOSE j \in 1 .. Len(chunks) :
             /\ chunks[j].index = i
             /\ \A k \in 1 .. j - 1 : chunks[k].index # i
    ELSE 0

\* verifySessionAgainstFile returned corruptIndices.
verifyReturns(v) == [v EXCEPT !.pc = "done", !.checks = {}]

\* The inner while of verifySessionAgainstFile: verifyChunk(idx) is started
\* while activeCount < concurrency. A verifyChunk that finds no chunkMeta
\* pushes its index and returns; its .then runs at the next await.
RECURSIVE verifyDispatch(_)
verifyDispatch(v) ==
    IF v.activeCount < verifyConcurrency /\ v.index < v.total
    THEN LET idx == v.index
             at == findIndex(v.chunks, idx)
             started == [v EXCEPT !.index = idx + 1, !.activeCount = v.activeCount + 1]
         IN IF at = 0
            THEN verifyDispatch([started EXCEPT
                                    !.corruptIndices = Append(v.corruptIndices, idx),
                                    !.settled = v.settled + 1])
            ELSE verifyDispatch([started EXCEPT
                                    !.checks = v.checks \cup
                                        {[i |-> idx, messageId |-> v.chunks[at].messageId,
                                          phase |-> "fetch", start |-> 0, end |-> 0]}])
    ELSE v

\* The outer while of verifySessionAgainstFile, from its condition to the
\* next await sleep(50) or to the return.
verifyLoop(v) ==
    IF ~(v.index < v.total \/ v.activeCount > 0) THEN verifyReturns(v)
    ELSE LET d == verifyDispatch(v)
         IN IF d.activeCount > 0
            THEN [d EXCEPT !.pc = "sleep", !.activeCount = d.activeCount - d.settled,
                           !.settled = 0]
            ELSE verifyReturns(d)

\* verifySessionAgainstFile(sessionId, originalFile) up to its first await.
verifyEnter(store, sessionId, caller) ==
    LET entered == [pc |-> "threw", caller |-> caller, chunks |-> <<>>, total |-> 0,
                    chunkSize |-> 0, corruptIndices |-> <<>>, index |-> 0,
                    activeCount |-> 0, settled |-> 0, checks |-> {}, failed |-> FALSE,
                    repaired |-> FALSE]
    IN IF sessionId \notin DOMAIN store THEN entered
       ELSE LET chunks == sortByIndex(store[sessionId].chunks)
            IN IF Len(chunks) = 0 THEN verifyReturns(entered)
               ELSE verifyLoop([entered EXCEPT !.pc = "sleep", !.chunks = chunks,
                                               !.total = store[sessionId].totalChunks])

\* verifyChunk after `await fetcher(url)` returned remoteData: the chunk size
\* is taken from the first response, the local slice is asked for.
verifyFetchedStep(v, c) ==
    LET remoteData == remote[c.messageId]
        chunkSize == IF v.chunkSize = 0 THEN Len(remoteData) ELSE v.chunkSize
        start == c.i * chunkSize
        end == min(start + Len(remoteData), Len(referenceFile))
        sized == [v EXCEPT !.chunkSize = chunkSize]
    IN IF start >= Len(referenceFile)
       THEN [sized EXCEPT !.checks = v.checks \ {c},
                          !.corruptIndices = Append(v.corruptIndices, c.i),
                          !.activeCount = v.activeCount - 1]
       ELSE [sized EXCEPT !.checks = (v.checks \ {c}) \cup
                              {[c EXCEPT !.phase = "slice", !.start = start, !.end = end]}]

\* verifyChunk after the local slice was read: lengths, then hashes.
verifyComparedStep(v, c) ==
    LET remoteData == remote[c.messageId]
        localData == slice(referenceFile, c.start, c.end)
        differs == \/ Len(remoteData) # Len(localData)
                   \/ digest(remoteData) # digest(localData)
    IN [v EXCEPT !.checks = v.checks \ {c},
                 !.corruptIndices = IF differs THEN Append(v.corruptIndices, c.i)
                                    ELSE v.corruptIndices,
                 !.activeCount = v.activeCount - 1]

\* The elements of an array.
elements(seq) == {seq[k] : k \in 1 .. Len(seq)}

\* [8, 9.5, 9.9, 10, 24, 24.9, 25, 49, 50, 99, 100, 499, 500] MB
candidates == <<80, 95, 99, 100, 240, 249, 250, 490, 500, 990, 1000, 4990, 5000>>

\* for (const idx of badIndices) ChunkManager.removeChunkByIndex(session.id, idx)
RECURSIVE removeBadChunks(_, _, _)
removeBadChunks(store, sessionId, badIndices) ==
    IF badIndices = <<>> THEN store
    ELSE removeBadChunks(removeChunkByIndexStore(store, sessionId, Head(badIndices)),
                         sessionId, Tail(badIndices))

\* The emitChange calls of that loop: one for each call that removed a record.
RECURSIVE removeBadChunksEmits(_, _, _)
removeBadChunksEmits(store, sessionId, badIndices) ==
    IF badIndices = <<>> THEN 0
    ELSE LET removed == removeChunkByIndexStore(store, sessionId, Head(badIndices))
         IN (IF removed # store THEN 1 ELSE 0)
            + removeBadChunksEmits(removed, sessionId, Tail(badIndices))

\* The chunk size repairSession deduces: the first candidate that gives the
\* session's totalChunks, 9.5 MB when none does or no valid chunk is left.
detectChunkSize(session, badIndices, size) ==
    LET validChunk == \E j \in 1 .. Len(session.chunks) :
                          session.chunks[j].index \notin elements(badIndices)
        fits == {k \in 1 .. Len(candidates) :
                     ceilDiv(size, candidates[k]) = session.totalChunks}
        detected == IF validChunk /\ fits # {}
                    THEN candidates[CHOOSE k \in fits : \A other \in fits : k <= other]
                    ELSE 0
    IN IF detected = 0 THEN 95 ELSE detected

\* An upload loop that sends the first bad index at every turn.
repairUploadOfFirst(r, session, position) ==
    LET i == r.badIndices[1]
        start == i * r.detectedChunkSize
        end == min(start + r.detectedChunkSize, Len(referenceFile))
    IN [r EXCEPT !.position = position, !.pc = "upload",
                 !.sent = Append(r.sent, i),
                 !.chunkBlob = slice(referenceFile, start, end),
                 !.metadata = [index |-> i, total |-> session.totalChunks,
                               originalSize |-> session.size, timestamp |-> session.id,
                               checksum |-> IF Len(session.chunks) = 0 THEN NoChecksum
                                            ELSE session.chunks[1].checksum]]

\* One turn of repairSession's upload loop up to `await uploadChunk`: the
\* slice of the file and the metadata of the carrier message. sent is the
\* history of the indices handed to uploadChunk.
repairUploadOf(r, session, position) ==
    LET i == r.badIndices[position]
        start == i * r.detectedChunkSize
        end == min(start + r.detectedChunkSize, Len(referenceFile))
    IN [r EXCEPT !.position = position, !.pc = "upload",
                 !.sent = Append(r.sent, i),
                 !.chunkBlob = slice(referenceFile, start, end),
                 !.metadata = [index |-> i, total |-> session.totalChunks,
                               originalSize |-> session.size, timestamp |-> session.id,
                               checksum |-> IF Len(session.chunks) = 0 THEN NoChecksum
                                            ELSE session.chunks[1].checksum]]

\* The RepairState repairSession creates.
Verifying == [status |-> "verifying", pc |-> "verify", totalBadChunks |-> 0,
              repairedChunks |-> 0, badIndices |-> <<>>, detectedChunkSize |-> 0,
              position |-> 0, chunkBlob |-> <<>>, metadata |-> <<>>, sent |-> <<>>]

\* repairSession after `await verifySessionAgainstFile` settled, up to its
\* next await: the storage and the RepairState it leaves, whether it deleted
\* the entry of activeRepairs (deleted), whether it called the registry
\* (removed) and the emitChange calls the registry made.
repairResume(store, sessionId, v) ==
    IF v.pc = "threw"
    THEN [storage |-> store, rp |-> [Verifying EXCEPT !.status = "failed", !.pc = "done"],
          deleted |-> FALSE, removed |-> FALSE, emits |-> 0]
    ELSE IF v.corruptIndices = <<>>
    THEN [storage |-> store, rp |-> NoRepair, deleted |-> TRUE, removed |-> FALSE,
          emits |-> 0]
    ELSE LET badIndices == v.corruptIndices
             removed == removeBadChunks(store, sessionId, badIndices)
             session == removed[sessionId]
             repairing == [Verifying EXCEPT
                              !.status = "repairing",
                              !.totalBadChunks = Len(badIndices),
                              !.badIndices = badIndices,
                              !.detectedChunkSize =
                                  detectChunkSize(session, badIndices, Len(referenceFile))]
         IN [storage |-> removed, rp |-> repairUploadOf(repairing, session, 1),
             deleted |-> FALSE, removed |-> TRUE,
             emits |-> removeBadChunksEmits(store, sessionId, badIndices)]

\* Call c has not returned: its verify sleeps, or its repairSession is at an
\* await.
running(c) == vf[c].pc = "sleep" \/ rp[c].status \in {"verifying", "repairing"}

\* The calls that were made, in the order they were made.
made == {c \in Calls : vf[c] # NoVerify}

\* The next call.
nextCall == Cardinality(made) + 1

\* A verifySessionAgainstFile call that returned earlier.
Returned == [pc |-> "returned"]

\* The locals of a verify call and what it returned are kept in the state
\* in which it returned and are garbage after it: `calls` without the locals
\* of the calls that had returned before this step, `started` being the call
\* this step makes (0 for none).
liveVerifies(calls, started) ==
    [c \in Calls |-> IF c # started /\ vf[c].pc \in {"done", "threw"} THEN Returned
                     ELSE calls[c]]

\* The same for repairSession: the RepairState of a call that had returned is
\* garbage when activeRepairs, `active` after this step, does not hold it.
liveRepairs(calls, started, active) ==
    [c \in Calls |-> IF c # started /\ c # active /\ rp[c].status \in {"completed", "failed"}
                     THEN NoRepair
                     ELSE calls[c]]

\* A step that leaves the calls as they are.
callsUnchanged ==
    /\ vf' = liveVerifies(vf, 0)
    /\ rp' = liveRepairs(rp, 0, activeRepairs)
    /\ UNCHANGED activeRepairs

\* A step of a verify call that leaves repairSession's calls as they are.
repairsUnchanged ==
    /\ rp' = liveRepairs(rp, 0, activeRepairs)
    /\ UNCHANGED activeRepairs

\* A step of a repairSession call that leaves the verify calls and the map as
\* they are.
verifiesUnchanged ==
    /\ vf' = liveVerifies(vf, 0)
    /\ UNCHANGED activeRepairs

\* Where the verify of call c leaves repairSession when it ended, with
\* activeRepairs as `active` before: repairSession goes on in the same task.
\* removeChunkByIndex gives the session a new chunks array.
repairResumed(c, r, active) ==
    /\ storage' = r.storage
    /\ activeRepairs' = IF r.deleted THEN 0 ELSE active
    /\ rp' = liveRepairs([rp EXCEPT ![c] = r.rp], c, activeRepairs')
    /\ IF r.removed
       THEN /\ notifyCount' = r.emits
            /\ lastOp' = "removeChunkByIndex"
            /\ merge' = detached({DlSession} \cap DOMAIN storage)
       ELSE UNCHANGED <<notifyCount, lastOp, merge>>

\* The verify of call c is left as v: the user's call has its answer,
\* repairSession goes on when it awaited the call.
verifySettles(c, v) ==
    IF v.caller = "repair" /\ v.pc \in {"done", "threw"}
    THEN repairResumed(c, repairResume(storage, DlSession, v), activeRepairs)
    ELSE repairsUnchanged /\ UNCHANGED <<storage, notifyCount, lastOp, merge>>

\* DownloadManager.repairSession(sessionId, file), whatever other calls of
\* the session are running.
repairSession ==
    /\ nextCall \in Calls
    /\ Len(remote) < MaxCarriers
    /\ IF ~hasSession(DlSession)
       THEN callsUnchanged /\ UNCHANGED <<storage, notifyCount, lastOp, merge>>
       ELSE LET c == nextCall
                v == [verifyEnter(storage, DlSession, "repair") EXCEPT !.repaired = FALSE]
            IN /\ vf' = liveVerifies([vf EXCEPT ![c] = v], c)
               /\ IF v.pc \in {"done", "threw"}
                  THEN repairResumed(c, repairResume(storage, DlSession, v), c)
                  ELSE /\ activeRepairs' = c
                       /\ rp' = liveRepairs([rp EXCEPT ![c] = Verifying], c, c)
                       /\ UNCHANGED <<storage, notifyCount, lastOp, merge>>
    /\ UNCHANGED <<now, downloadVars, uploadVars, settings, scanVars,
                   referenceFile, remote, inbox>>

\* A repair reached completed, its replacements went through addChunk and no
\* call is running.
afterRepair ==
    /\ \E c \in Calls : rp[c].status = "completed"
    /\ inbox = {}
    /\ \A c \in Calls : ~running(c)

\* The user asks for a verification alone: ChunkManager.verifySessionAgainstFile.
verifySessionAgainstFile ==
    /\ nextCall \in Calls
    /\ hasSession(DlSession)
    /\ vf' = liveVerifies([vf EXCEPT ![nextCall] =
                               [verifyEnter(storage, DlSession, "user") EXCEPT
                                   !.repaired = afterRepair]], nextCall)
    /\ repairsUnchanged
    /\ UNCHANGED <<registryVars, lastOp, downloadVars, uploadVars, settings, scanVars,
                   referenceFile, remote, inbox, mergeVars>>

\* A fetch of verifyChunk returned the attachment's bytes.
verifyFetched ==
    \E c \in Calls :
        /\ vf[c].pc = "sleep"
        /\ \E check \in vf[c].checks :
             /\ check.phase = "fetch"
             /\ vf' = liveVerifies([vf EXCEPT ![c] = verifyFetchedStep(vf[c], check)], 0)
        /\ repairsUnchanged
        /\ UNCHANGED <<registryVars, lastOp, downloadVars, uploadVars, settings, scanVars,
                       referenceFile, remote, inbox, mergeVars>>

\* The catch of verifyChunk: the index is pushed.
verifyCaught(v, check) ==
    [v EXCEPT !.checks = v.checks \ {check},
              !.corruptIndices = Append(v.corruptIndices, check.i),
              !.activeCount = v.activeCount - 1]

\* A fetch of verifyChunk threw or returned nothing: the catch of verifyChunk.
verifyFetchFailed ==
    \E c \in Calls :
        /\ vf[c].pc = "sleep"
        /\ \E check \in vf[c].checks :
             /\ check.phase = "fetch"
             /\ vf' = liveVerifies([vf EXCEPT ![c] = [verifyCaught(vf[c], check) EXCEPT !.failed = TRUE]], 0)
        /\ repairsUnchanged
        /\ UNCHANGED <<registryVars, lastOp, downloadVars, uploadVars, settings, scanVars,
                       referenceFile, remote, inbox, mergeVars>>

\* localSlice.arrayBuffer() or crypto.subtle.digest rejected: the catch of
\* verifyChunk, with every fetch answered.
verifyReadFailed ==
    \E c \in Calls :
        /\ vf[c].pc = "sleep"
        /\ \E check \in vf[c].checks :
             /\ check.phase = "slice"
             /\ vf' = liveVerifies([vf EXCEPT ![c] = verifyCaught(vf[c], check)], 0)
        /\ repairsUnchanged
        /\ UNCHANGED <<registryVars, lastOp, downloadVars, uploadVars, settings, scanVars,
                       referenceFile, remote, inbox, mergeVars>>

\* The local slice and the two hashes of a verifyChunk are there.
verifyCompared ==
    \E c \in Calls :
        /\ vf[c].pc = "sleep"
        /\ \E check \in vf[c].checks :
             /\ check.phase = "slice"
             /\ vf' = liveVerifies([vf EXCEPT ![c] = verifyComparedStep(vf[c], check)], 0)
        /\ repairsUnchanged
        /\ UNCHANGED <<registryVars, lastOp, downloadVars, uploadVars, settings, scanVars,
                       referenceFile, remote, inbox, mergeVars>>

\* verifySessionAgainstFile wakes from sleep(50).
verifyWake ==
    \E c \in Calls :
        /\ vf[c].pc = "sleep"
        /\ vf' = liveVerifies([vf EXCEPT ![c] = verifyLoop(vf[c])], 0)
        /\ verifySettles(c, vf'[c])
        /\ UNCHANGED <<now, downloadVars, uploadVars, settings, scanVars,
                       referenceFile, remote, inbox>>

\* uploadChunk of the repair: the attachment is uploaded and RestAPI.post has
\* reached the server, so the carrier message with the slice exists in the
\* channel; the answer to the POST is still on its way.
repairPosted ==
    \E c \in Calls :
        /\ rp[c].status = "repairing" /\ rp[c].pc = "upload"
        /\ remote' = Append(remote, rp[c].chunkBlob)
        /\ inbox' = inbox \cup {[id |-> Len(remote) + 1, metadata |-> rp[c].metadata]}
        /\ rp' = liveRepairs([rp EXCEPT ![c].pc = "post"], 0, activeRepairs)
        /\ verifiesUnchanged
        /\ UNCHANGED <<registryVars, lastOp, downloadVars, uploadVars, settings, scanVars,
                       referenceFile, mergeVars>>

\* uploadChunk of the repair resolved: repairedChunks++, then the sleep of
\* one second.
repairUploaded ==
    \E c \in Calls :
        /\ rp[c].status = "repairing" /\ rp[c].pc = "post"
        /\ rp' = liveRepairs([rp EXCEPT ![c].repairedChunks = rp[c].repairedChunks + 1,
                                        ![c].pc = "sleep"], 0, activeRepairs)
        /\ verifiesUnchanged
        /\ UNCHANGED <<registryVars, lastOp, downloadVars, uploadVars, settings, scanVars,
                       referenceFile, remote, inbox, mergeVars>>

\* uploadChunk of the repair rejected, before the carrier message exists
\* (CloudUpload failed) or after it (RestAPI.post rejected with the message
\* created): the catch of repairSession.
repairUploadFailed ==
    \E c \in Calls :
        /\ rp[c].status = "repairing" /\ rp[c].pc \in {"upload", "post"}
        /\ rp' = liveRepairs([rp EXCEPT ![c].status = "failed", ![c].pc = "done"],
                              c, activeRepairs)
        /\ verifiesUnchanged
        /\ UNCHANGED <<registryVars, lastOp, downloadVars, uploadVars, settings, scanVars,
                       referenceFile, remote, inbox, mergeVars>>

\* repairSession wakes from its sleep: the next bad index, or completed.
repairWake ==
    \E c \in Calls :
        /\ rp[c].status = "repairing" /\ rp[c].pc = "sleep"
        /\ rp' = liveRepairs(
                     [rp EXCEPT ![c] =
                         IF rp[c].position < Len(rp[c].badIndices)
                         THEN repairUploadOf(rp[c], storage[DlSession], rp[c].position + 1)
                         ELSE [rp[c] EXCEPT !.status = "completed", !.pc = "done"]],
                     c, activeRepairs)
        /\ verifiesUnchanged
        /\ UNCHANGED <<registryVars, lastOp, downloadVars, uploadVars, settings, scanVars,
                       referenceFile, remote, inbox, mergeVars>>

\* The timer repairSession sets when the repair is completed fires after five
\* seconds: the entry of activeRepairs is deleted if it is still this
\* repair's. The timer of a repair whose entry was replaced changes nothing.
repairCleared ==
    \E c \in Calls :
        /\ rp[c].status = "completed"
        /\ activeRepairs = c
        /\ activeRepairs' = 0
        /\ rp' = liveRepairs([rp EXCEPT ![c] = NoRepair], 0, 0)
        /\ vf' = liveVerifies(vf, 0)
        /\ UNCHANGED <<registryVars, lastOp, downloadVars, uploadVars, settings, scanVars,
                       referenceFile, remote, inbox, mergeVars>>

\* MESSAGE_CREATE of a carrier message the repair posted reaches the hook.
repairMessageCreate ==
    \E message \in inbox :
        /\ addChunk(StoredChunk(message.metadata.index, message.metadata.total,
                                message.metadata.timestamp, message.metadata.originalSize,
                                message.metadata.checksum, message.id))
        /\ inbox' = inbox \ {message}
    /\ callsUnchanged
    /\ UNCHANGED <<now, downloadVars, uploadVars, settings, scanVars, referenceFile, remote,
                   mergeVars>>

\* A second session of the registry, which nobody repairs.
OtherSession == 2

\* A session uploaded with the 9.5 MB preset, all its chunks registered; some
\* of its attachments do not hold the bytes of the reference file.
RepairInit ==
    /\ \E size \in FileSizes :
         LET bytes == fileBytes(size)
             total == ceilDiv(size, PresetChunkSize)
         IN /\ referenceFile = bytes
            /\ storage = [k \in {DlSession, OtherSession} |->
                            IF k = DlSession
                            THEN [id |-> DlSession, totalChunks |-> total, size |-> size,
                                  chunks |-> [j \in 1 .. total |->
                                                [index |-> j - 1, messageId |-> j,
                                                 checksum |-> digest(bytes)]],
                                  lastUpdated |-> 0, isComplete |-> TRUE]
                            ELSE [id |-> OtherSession, totalChunks |-> 2, size |-> size,
                                  chunks |-> <<[index |-> 1, messageId |-> 0,
                                                checksum |-> NoChecksum]>>,
                                  lastUpdated |-> 0, isComplete |-> FALSE]]
            /\ \E bad \in SUBSET (0 .. total - 1) :
                 remote = [j \in 1 .. total |->
                             IF j - 1 \in bad THEN corrupted(uploadedSlice(bytes, j - 1))
                             ELSE uploadedSlice(bytes, j - 1)]
    /\ now = 0 /\ notifyCount = 0 /\ lastOp = "init"
    /\ dl = NoDownload /\ dlAborted = {} /\ dlLoops = <<>> /\ dlFetches = {}
    /\ up = NoUpload /\ upAborted = {} /\ upLoops = <<>> /\ upSends = {}
    /\ upPauseSignals = {} /\ pendingUploads = NotSaved /\ upTimers = 0
    /\ upOrphans = <<>>
    /\ vf = [c \in Calls |-> NoVerify] /\ rp = [c \in Calls |-> NoRepair]
    /\ activeRepairs = 0 /\ inbox = {}
    /\ IdleScan
    /\ IdleMerge
    /\ settings = [parallelUploads |-> FALSE, parallelCount |-> 2,
                   parallelDownloading |-> FALSE, downloadWorkers |-> 3,
                   safeMode |-> TRUE]

RepairNext ==
    \/ repairSession
    \/ verifySessionAgainstFile
    \/ verifyFetched
    \/ verifyFetchFailed
    \/ verifyReadFailed
    \/ verifyCompared
    \/ verifyWake
    \/ repairPosted
    \/ repairUploaded
    \/ repairUploadFailed
    \/ repairWake
    \/ repairCleared
    \/ repairMessageCreate

RepairSpec == RepairInit /\ [][RepairNext]_vars

(***************************************************************************)
(* Claims about the Chunk Registry (RegistrySpec).                         *)
(***************************************************************************)
OnePerIndex ==
    \A k \in DOMAIN storage :
        \A i, j \in 1 .. Len(storage[k].chunks) :
            storage[k].chunks[i].index = storage[k].chunks[j].index => i = j

\* C1: addChunk of a chunk whose (sessionId, index) is already present changes
\* nothing of the registry (chunk list, isComplete, lastUpdated) and fires no
\* listener; so no session ever holds two ChunkRecords with the same index.
C1_AddChunkIdempotent ==
    /\ []OnePerIndex
    /\ [][lastOp' = "addChunk:duplicate" => (storage' = storage /\ notifyCount' = 0)]_vars

\* A duplicate was offered to a session that holds chunks, and was refused.
C1_Witness ==
    /\ lastOp = "addChunk:duplicate"
    /\ \E k \in DOMAIN storage : Len(storage[k].chunks) >= 2

\* C2: every session has isComplete = (number of distinct indices = totalChunks).
C2_CompleteIffAllIndices ==
    \A k \in DOMAIN storage :
        storage[k].isComplete = (Cardinality(indicesOf(storage[k])) = storage[k].totalChunks)

\* C3: every stored ChunkRecord has 0 <= index < totalChunks of its session.
C3_IndexInRange ==
    \A k \in DOMAIN storage :
        \A i \in indicesOf(storage[k]) : 0 <= i /\ i < storage[k].totalChunks

\* C4: no session of the registry has an empty chunk list.
C4_NoEmptySession ==
    \A k \in DOMAIN storage : storage[k].chunks # <<>>

(***************************************************************************)
(* Claims about the Download Engine (DownloadSpec).                        *)
(***************************************************************************)
\* C5: a download that reached status completed holds the chunks' bytes in
\* index order, B0 || B1 || ... || B(total-1), whatever order the fetches
\* returned in and however often the download was paused and started again.
C5_MergeInIndexOrder ==
    dl.status = "completed" => dl.fileBlob = originalFile(DlChunks, DlChunks)

\* A paused and restarted download completed, its first bytes having arrived
\* for a chunk other than chunk 0.
C5_Witness ==
    /\ dl.status = "completed"
    /\ Len(dlLoops) = 2
    /\ dl.blobs[1].key # 0

\* C9: the fetches in flight for the DownloadState never outnumber the
\* configured workers (downloadWorkers if parallelDownloading, else 1).
C9_FetchesWithinWorkers ==
    Cardinality(dlFetches) <= downloadConcurrency

(***************************************************************************)
(* Claims about the Upload Engine (UploadSpec).                            *)
(***************************************************************************)
\* C6: an UploadSession has status completed only if every index of
\* [0, totalChunks) is in completedIndices and bytesUploaded = size.
C6_CompletedHasAllChunks ==
    up.status = "completed" =>
        /\ up.completedIndices = 0 .. up.totalChunks - 1
        /\ up.bytesUploaded = up.size

\* The attempt that pauseUpload stopped with sends in flight has wound down:
\* no processUpload call is running and no send is outstanding.
pausedAttemptWoundDown ==
    /\ up.status # "none"
    /\ up.controller \in upPauseSignals
    /\ upSends = {}
    /\ \A k \in 1 .. Len(upLoops) : upLoops[k].pc = "done"

\* C7: after pauseUpload was called with sends in flight, the session is paused
\* once the attempt has wound down (not completed, not error), and no send that
\* was given the pause signal adds its index to completedIndices.
C7_PauseStopsAttempt ==
    /\ [](pausedAttemptWoundDown => up.status = "paused")
    /\ [][(up.status # "none" /\ up'.status # "none"
             /\ up'.completedIndices # up.completedIndices)
          => \E s \in upSends \ upSends' : s.signal \notin upPauseSignals]_vars

\* C8: the sends in flight for the UploadSession never outnumber the workers
\* configured at that moment (parallelCount if parallelUploads, else 1).
C8_SendsWithinWorkers ==
    Cardinality(inFlight(upSends)) <= uploadConcurrency

\* C10: resumeUpload(id, file) with a file whose name or size is not the
\* session's changes nothing: status, file, controller, completedIndices stay
\* and no processUpload call starts, with or without a file attached before.
C10_MismatchedFileRejected ==
    [][\A file \in Files :
          (/\ up.status # "none"
           /\ (file.name # up.name \/ file.size # up.size)
           /\ resumeUploadWith(file))
          => UNCHANGED <<up, upAborted, upLoops, upSends>>]_vars

(***************************************************************************)
(* More claims about the Download Engine.                                  *)
(***************************************************************************)
\* C12: startDownload on a session whose isComplete is false is rejected:
\* no DownloadState is created, an existing one is not modified, no
\* downloadLoop starts and no fetch is issued.
C12_IncompleteSessionRejected ==
    [][(/\ hasSession(DlSession)
        /\ ~storage[DlSession].isComplete
        /\ startDownload)
       => UNCHANGED downloadVars]_vars

\* startDownload was the last call, made on a session that had lost a chunk
\* while its download was paused with bytes in the cache.
C12_Witness ==
    /\ lastOp = "startDownload"
    /\ ~storage[DlSession].isComplete
    /\ dl.status = "paused"
    /\ dl.blobs # <<>>

\* The running attempt had a fetch that returned no bytes: its controller was
\* aborted by the worker's .catch (pauseDownload would have set isPaused).
fetchFailedInAttempt ==
    /\ dl.status # "none"
    /\ dl.error = "Chunk failed"
    /\ dl.controller \in dlAborted
    /\ ~dl.isPaused

\* No downloadLoop call is running and no fetch is outstanding.
downloadWoundDown ==
    /\ dlFetches = {}
    /\ \A k \in 1 .. Len(dlLoops) : dlLoops[k].pc = "done"

\* C13: when a fetch of the attempt returned no bytes, the attempt does not
\* merge (status is neither merging nor completed) and it ends with status error.
C13_FailedFetchEndsInError ==
    /\ fetchFailedInAttempt => dl.status \notin {"merging", "completed"}
    /\ (fetchFailedInAttempt /\ downloadWoundDown) => dl.status = "error"

\* The status changes the DownloadState machine allows in one task: the
\* edges pending->downloading, downloading->merging, merging->completed,
\* downloading->paused, downloading->error, paused->downloading, and what
\* they compose to ("none" stands for a state just created as pending).
DownloadEdges ==
    {<<"none", "downloading">>, <<"downloading", "merging">>, <<"merging", "completed">>,
     <<"downloading", "paused">>, <<"downloading", "error">>, <<"paused", "downloading">>}

\* The pairs <<a, c>> with a step of `pairs` from a to b and an edge from b to c.
compose(pairs, edges) ==
    {<<pe[1][1], pe[2][2]>> : pe \in {x \in pairs \X edges : x[1][2] = x[2][1]}}

\* The pairs joined by a path of 1 .. n edges.
RECURSIVE pathsOf(_, _)
pathsOf(edges, n) ==
    IF n = 1 THEN edges
    ELSE pathsOf(edges, n - 1) \cup compose(pathsOf(edges, n - 1), edges)

\* C17: the status of the DownloadState changes only along the edges of its
\* state machine (a task may take several in a row), for every sequence of
\* startDownload, pauseDownload and fetch outcomes; cancelDownload removes
\* the DownloadState.
C17_DownloadStatusEdges ==
    [][(dl'.status # dl.status /\ dl'.status # "none")
       => <<dl.status, dl'.status>> \in pathsOf(DownloadEdges, 4)]_vars

\* C18: fileBlob is set only when the byte cache holds bytes for every index
\* of [0, totalChunks).
C18_MergeNeedsEveryIndex ==
    (dl.status # "none" /\ dl.fileBlob # NoBlob)
    => \A i \in 0 .. storage[DlSession].totalChunks - 1 : i \in blobKeys(dl)

\* C20: a checksum computation that failed is not a mismatch and not a match:
\* checksumResult is fail only when the merged bytes' digest differs from the
\* recorded one, and pass only when it equals it.
C20_HashFailureIsNotAVerdict ==
    /\ (dl.status # "none" /\ dl.checksumResult = "fail")
       => storage[DlSession].chunks[1].checksum # digest(dl.fileBlob)
    /\ (dl.status # "none" /\ dl.checksumResult = "pass")
       => storage[DlSession].chunks[1].checksum = digest(dl.fileBlob)

(***************************************************************************)
(* More claims about the Upload Engine.                                    *)
(***************************************************************************)
\* C11: after a pauseUpload and a resumeUpload, no index that is already in
\* completedIndices is handed to uploadChunk.
C11_CompletedIndexNotResent ==
    [][(up.status # "none" /\ up'.status # "none"
          /\ upPauseSignals # {} /\ Len(upLoops) >= 2)
       => \A s \in upSends' \ upSends :
              s.phase = "upload" => s.index \notin up.completedIndices]_vars

\* C16: the status of the UploadSession changes only along pending->uploading
\* (startUpload creates the session pending and enters uploading in the same
\* task), uploading->completed, uploading->paused, uploading->error, and, by
\* resumeUpload only, paused->pending->uploading and error->pending->uploading.
C16_UploadStatusEdges ==
    [][(up'.status # up.status /\ up'.status # "none")
       => \/ up.status = "none" /\ up'.status = "uploading"
          \/ up.status = "uploading" /\ up'.status \in {"completed", "paused", "error"}
          \/ /\ up.status \in {"paused", "error"}
             /\ up'.status = "uploading"
             /\ \E file \in Files \cup {NoFile} : resumeUploadWith(file)]_vars

\* The session the map holds came back from the store as the claim says.
reloaded(session, loaded, aborted) ==
    /\ loaded.id = session.id /\ loaded.name = session.name /\ loaded.size = session.size
    /\ loaded.chunkSize = session.chunkSize /\ loaded.totalChunks = session.totalChunks
    /\ loaded.channelId = session.channelId
    /\ loaded.completedIndices = session.completedIndices
    /\ loaded.status = "paused"
    /\ loaded.file = NoFile
    /\ loaded.controller \notin aborted

\* C19: saving and reloading keeps a session that was neither completed nor
\* error, with its id, name, size, chunkSize, totalChunks, channelId and
\* completedIndices, as paused, without file and with a controller that is
\* not aborted; a completed or errored session does not come back. This
\* holds when the client restarts, and when init() runs on the live page
\* the map's session is replaced in the same way, while a completed or
\* errored one is left as it is.
C19_ReloadKeepsUnfinished ==
    [][LET unfinished == up.tracked /\ up.status \notin {"completed", "error"}
       IN /\ loadState => IF unfinished THEN reloaded(up, up', upAborted')
                                        ELSE up' = NoUpload
          /\ init => IF unfinished THEN reloaded(up, up', upAborted')
                                   ELSE UNCHANGED up]_vars

\* A session with a chunk sent came back from a reload, with no file.
C19_Witness ==
    /\ up.status = "paused"
    /\ up.file = NoFile
    /\ up.completedIndices # {}

(***************************************************************************)
(* Claims about Verify and Repair (RepairSpec).                            *)
(***************************************************************************)
\* The indices of a verify call's chunks whose attachment does not hold the
\* bytes the reference file has for that index.
differing(v) ==
    {v.chunks[j].index : j \in {k \in 1 .. Len(v.chunks) :
        remote[v.chunks[k].messageId] # uploadedSlice(referenceFile, v.chunks[k].index)}}

\* C14: a verifySessionAgainstFile call on a session that has all its chunks,
\* none of whose fetches failed, returns exactly the indices whose stored bytes
\* differ from the reference file's slice for the index, whatever the order in
\* which the fetches return.
C14_VerifyReturnsTheCorrupted ==
    \A c \in Calls :
        (/\ vf[c].pc = "done"
         /\ ~vf[c].failed
         /\ Len(vf[c].chunks) = vf[c].total)
        => elements(vf[c].corruptIndices) = differing(vf[c])

\* C15: once repairSession reached completed and the carrier messages it
\* posted went through addChunk, the session is complete and a
\* verifySessionAgainstFile call with the same file, whose fetches all
\* succeed, returns [].
C15_RepairedSessionVerifies ==
    \A c \in Calls :
        (/\ vf[c].pc = "done"
         /\ vf[c].caller = "user"
         /\ vf[c].repaired
         /\ ~vf[c].failed)
        => /\ storage[DlSession].isComplete
           /\ vf[c].corruptIndices = <<>>

(***************************************************************************)
(* Claims about failed sends of the Upload Engine (UploadSpec).            *)
(***************************************************************************)
\* C21: once a send failed with an error that is not a rate limit, the status
\* is error and stays error until resumeUpload is called; pauseUpload, a call
\* of the user too, is left aside.
C21_ErrorStaysUntilResume ==
    [][(up.status = "error" /\ up'.status \notin {"error", "none"})
       => \/ \E file \in Files \cup {NoFile} : resumeUploadWith(file)
          \/ pauseUpload]_vars

\* The session was paused by a rate limit in safe mode and nobody touched it
\* since: isPaused is set and the controller of the attempt is not aborted.
rateLimitPaused ==
    /\ up.status # "none"
    /\ up.isPaused
    /\ up.controller # 0
    /\ up.controller \notin upAborted

\* C22: after a send failed with a rate limit in safe mode the session is
\* paused, not error and not completed, and no further chunk is dispatched.
C22_RateLimitPauses ==
    /\ [](rateLimitPaused => up.status = "paused")
    /\ [][rateLimitPaused => \A s \in upSends' \ upSends : s.phase # "hash"]_vars

(***************************************************************************)
(* Claims about the stored upload state (DeleteUploadSpec) and about the   *)
(* file hash (HashingUploadSpec).                                          *)
(***************************************************************************)
\* C24: the stored blob is what the claim says of the session the map
\* holds: nothing for a session that is completed, errored or was deleted
\* (also while its workers run on), else an entry with the same id and
\* completedIndices and with neither file nor controller, and with the same
\* status unless the session was just read back from the store.
C24_StoredStateFollowsSessions ==
    up.status # "none" =>
        IF ~up.tracked \/ up.status \in {"completed", "error"}
        THEN pendingUploads = NotSaved
        ELSE /\ pendingUploads.saved
             /\ pendingUploads.id = up.id
             /\ up.controller # 0 => pendingUploads.status = up.status
             /\ elements(pendingUploads.completedIndices) = up.completedIndices
             /\ "file" \notin DOMAIN pendingUploads
             /\ "controller" \notin DOMAIN pendingUploads

\* A deleted session whose sends are still in flight, after one of them
\* completed a chunk: nothing is stored.
C24_Witness ==
    /\ up.status # "none"
    /\ ~up.tracked
    /\ upSends # {}
    /\ up.completedIndices # {}
    /\ pendingUploads = NotSaved

\* C25: a chunk is sent with the hash of the file as its whole-file checksum
\* or with none; when hashing failed it carries none.
C25_FailedHashIsNotSent ==
    \A s \in inFlight(upSends) :
        s.checksum \in {NoChecksum, digest(fileBytes(up.size))}

(***************************************************************************)
(* Claim about the safe mode cooldown (SafeModeSpec).                      *)
(***************************************************************************)
\* C23: an upload that a rate limit paused in safe mode is uploading again
\* later, with no call from the user.
C23_CooldownResumes ==
    rateLimitPaused ~> (up.status = "uploading" /\ ~up.isPaused)

(***************************************************************************)
(* Claim about the end of a download (DownloadSpec).                       *)
(***************************************************************************)
\* C26: a download that recorded a checksumResult is completed, and a
\* completed download has the result skipped exactly when the chunks carry no
\* whole-file checksum, pass when the hash of the merged file is the carried
\* checksum, and fail otherwise.
C26_ChecksumVerdict ==
    /\ (dl.status # "none" /\ dl.checksumResult # "none") => dl.status = "completed"
    /\ (dl.status = "completed") =>
          dl.checksumResult =
             IF storage[DlSession].chunks[1].checksum = NoChecksum THEN "skipped"
             ELSE IF storage[DlSession].chunks[1].checksum = digest(dl.fileBlob) THEN "pass"
             ELSE "fail"

(***************************************************************************)
(* The Scanner: DownloadManager.scanChannel(channelId, limit).             *)
(***************************************************************************)
\* Math.min(50, ...): the largest page scanChannel asks for.
PageSize == 50

\* The limits a scan is called with.
ScanLimits == {0, 1, PageSize, PageSize + 1, MaxScanLimit}

\* The channel histories: message ids n, n - 1, .., 1.
Histories == {[j \in 1 .. n |-> n + 1 - j] : n \in {0, 1, PageSize, PageSize + 1, MaxHistory}}

\* A scanner that asks for a full page every time.
fullBatch(limit, fetched) == PageSize

\* const batchSize = Math.min(50, limit - fetched)
batchSize(limit, fetched) == min(PageSize, limit - fetched)

\* RestAPI.get(MESSAGES(channelId), {limit, before}): the messages older than
\* `before`, newest first, at most `limit` of them.
messagesBefore(history, before, limit) ==
    LET older == SelectSeq(history, LAMBDA id : before = NoMessage \/ id < before)
    IN SubSeq(older, 1, min(limit, Len(older)))

\* The oldest MaxTotal messages of a channel carry the chunks of DlSession.
isCarrier(id) == id <= MaxTotal

\* The record scanChannel hands to addChunk for a carrier message: the parsed
\* body with url and proxyUrl.
scannedChunk(id) == StoredChunk(id - 1, MaxTotal, DlSession, 1, NoChecksum, NoMessage)

\* The messages of a page that pass `msg.content && msg.attachments?.length`
\* and isValidChunk.
carriersOf(messages) == SelectSeq(messages, isCarrier)

\* messages.forEach(...): the registry after the page, and the emitChange calls.
RECURSIVE scanAdd(_, _)
scanAdd(store, messages) ==
    IF messages = <<>> THEN [storage |-> store, emits |-> 0]
    ELSE LET id == Head(messages)
             added == IF isCarrier(id) THEN addChunkStore(store, scannedChunk(id)) ELSE store
             rest == scanAdd(added, Tail(messages))
         IN [storage |-> rest.storage,
             emits |-> rest.emits + IF isCarrier(id) THEN addChunkEmits(store, scannedChunk(id))
                                    ELSE 0]

\* scanChannel left its loop: why (the code has no such variable).
scanEnds(sc, outcome) == [sc EXCEPT !.pc = "done", !.outcome = outcome]

\* scanChannel from `while (fetched < limit)` to the await of RestAPI.get.
\* requests is the history of the queries, with `fetched` at that time.
scanLoop(sc) ==
    IF sc.fetched < sc.limit
    THEN [sc EXCEPT !.pc = "get",
                    !.requests = Append(sc.requests,
                                        [limit |-> batchSize(sc.limit, sc.fetched),
                                         before |-> sc.beforeId,
                                         fetched |-> sc.fetched])]
    ELSE scanEnds(sc, "limit")

\* DownloadManager.scanChannel(channelId, limit), to its first await.
scanChannel ==
    /\ scan.pc = "idle"
    /\ \E limit \in ScanLimits :
         scan' = scanLoop([pc |-> "loop", limit |-> limit, fetched |-> 0,
                           beforeId |-> NoMessage, requests |-> <<>>, outcome |-> ""])
    /\ UNCHANGED <<channel, registryVars, lastOp, downloadVars, uploadVars, settings,
                   repairVars, mergeVars>>

\* RestAPI.get resolved with an array: the page is handed to addChunk, then
\* the 200 ms pause; an empty page ends the scan.
scanPage ==
    /\ scan.pc = "get"
    /\ LET request == scan.requests[Len(scan.requests)]
           messages == messagesBefore(channel, request.before, request.limit)
           added == scanAdd(storage, carriersOf(messages))
       IN IF Len(messages) = 0
          THEN /\ scan' = scanEnds(scan, "empty")
               /\ UNCHANGED <<storage, notifyCount, lastOp>>
          ELSE /\ storage' = added.storage
               /\ notifyCount' = added.emits
               /\ lastOp' = "scanChannel"
               /\ scan' = [scan EXCEPT !.beforeId = messages[Len(messages)],
                                       !.fetched = scan.fetched + Len(messages),
                                       !.pc = "sleep"]
    /\ UNCHANGED <<channel, now, downloadVars, uploadVars, settings, repairVars, mergeVars>>

\* RestAPI.get resolved with something that is no array: break.
scanNotArray ==
    /\ scan.pc = "get"
    /\ scan' = scanEnds(scan, "notArray")
    /\ UNCHANGED <<channel, registryVars, lastOp, downloadVars, uploadVars, settings,
                   repairVars, mergeVars>>

\* RestAPI.get rejected: the catch of scanChannel.
scanFailed ==
    /\ scan.pc = "get"
    /\ scan' = scanEnds(scan, "threw")
    /\ UNCHANGED <<channel, registryVars, lastOp, downloadVars, uploadVars, settings,
                   repairVars, mergeVars>>

\* The 200 ms pause is over: the loop goes on.
scanWake ==
    /\ scan.pc = "sleep"
    /\ scan' = scanLoop(scan)
    /\ UNCHANGED <<channel, registryVars, lastOp, downloadVars, uploadVars, settings,
                   repairVars, mergeVars>>

\* An empty registry and a channel with some history.
ScanInit ==
    /\ storage = <<>> /\ now = 0 /\ notifyCount = 0 /\ lastOp = "init"
    /\ dl = NoDownload /\ dlAborted = {} /\ dlLoops = <<>> /\ dlFetches = {}
    /\ up = NoUpload /\ upAborted = {} /\ upLoops = <<>> /\ upSends = {}
    /\ upPauseSignals = {} /\ pendingUploads = NotSaved /\ upTimers = 0
    /\ upOrphans = <<>>
    /\ IdleRepair
    /\ channel \in Histories
    /\ scan = NoScan
    /\ IdleMerge
    /\ settings = [parallelUploads |-> FALSE, parallelCount |-> 2,
                   parallelDownloading |-> TRUE, downloadWorkers |-> 3, safeMode |-> TRUE]

ScanNext ==
    \/ scanChannel
    \/ scanPage
    \/ scanNotArray
    \/ scanFailed
    \/ scanWake

\* Every request is answered or fails, and every timer fires.
ScanFairness ==
    /\ WF_vars(scanPage \/ scanNotArray \/ scanFailed)
    /\ WF_vars(scanWake)

ScanSpec == ScanInit /\ [][ScanNext]_vars /\ ScanFairness

(***************************************************************************)
(* More claims about Verify and Repair (RepairSpec).                       *)
(***************************************************************************)
\* C27: a verifySessionAgainstFile call that returned has flagged every index
\* of [0, totalChunks) for which its snapshot of the session has no record,
\* also when the session has no record at all.
C27_MissingIsFlagged ==
    \A c \in Calls :
        (vf[c].pc = "done") =>
            \A i \in 0 .. storage[DlSession].totalChunks - 1 :
                (\A j \in 1 .. Len(vf[c].chunks) : vf[c].chunks[j].index # i)
                    => i \in elements(vf[c].corruptIndices)

\* The records of a session that are left when those with an index in B go.
RECURSIVE recordsOutside(_, _)
recordsOutside(chunks, B) ==
    IF chunks = <<>> THEN <<>>
    ELSE IF Head(chunks).index \in B THEN recordsOutside(Tail(chunks), B)
    ELSE <<Head(chunks)>> \o recordsOutside(Tail(chunks), B)

\* C28: when repairSession has its bad indices B it removes the records with an
\* index in B from the session and nothing else from the registry; and every
\* replacement a repair posted for an index of its B is, when it reaches
\* addChunk, added as a new record and not rejected as a duplicate.
C28_BadRecordsMakeRoom ==
    /\ [][\A c \in Calls :
             (rp[c].status # "repairing" /\ rp'[c].status = "repairing")
             => /\ storage'[DlSession].chunks =
                       recordsOutside(storage[DlSession].chunks,
                                      elements(rp'[c].badIndices))
                /\ storage'[OtherSession] = storage[OtherSession]
                /\ DOMAIN storage' = DOMAIN storage]_vars
    /\ [][\A message \in inbox \ inbox' : lastOp' = "addChunk:added"]_vars

\* The chunk size the ladder gives for a file size and a chunk count: the
\* first candidate s with ceil(size / s) = total, 9.5 MiB when there is none.
ladderSize(size, total) ==
    IF \E k \in 1 .. Len(candidates) : ceilDiv(size, candidates[k]) = total
    THEN candidates[CHOOSE k \in 1 .. Len(candidates) :
                        /\ ceilDiv(size, candidates[k]) = total
                        /\ \A other \in 1 .. k - 1 : ceilDiv(size, candidates[other]) # total]
    ELSE 95

\* C29: the chunk size repairSession works with is the one the ladder gives
\* for the file size and totalChunks, whatever the set of bad indices.
C29_LadderChunkSize ==
    \A c \in Calls :
        (rp[c].status \in {"repairing", "completed"})
            => rp[c].detectedChunkSize =
                   ladderSize(Len(referenceFile), storage[DlSession].totalChunks)

\* C30: repairSession hands to uploadChunk bad indices only, each at most
\* once, the next one only when the one before resolved; when it is completed
\* it has sent every bad index once and repairedChunks = totalBadChunks.
C30_OneReplacementPerBadIndex ==
    \A c \in Calls :
        (rp[c].status \in {"repairing", "completed"}) =>
            /\ elements(rp[c].sent) \subseteq elements(rp[c].badIndices)
            /\ Cardinality(elements(rp[c].sent)) = Len(rp[c].sent)
            /\ Len(rp[c].sent) - rp[c].repairedChunks \in {0, 1}
            /\ rp[c].totalBadChunks = Cardinality(elements(rp[c].badIndices))
            /\ (rp[c].status = "completed") =>
                   /\ elements(rp[c].sent) = elements(rp[c].badIndices)
                   /\ rp[c].repairedChunks = rp[c].totalBadChunks

\* A repair of two bad chunks ran to its end while another repairSession call
\* of the session had a send of its own in flight.
C30_Witness ==
    \E c, d \in Calls :
        /\ c # d
        /\ rp[c].status = "completed"
        /\ Len(rp[c].badIndices) >= 2
        /\ rp[c].repairedChunks = 2
        /\ rp[d].status = "repairing"
        /\ rp[d].pc \in {"upload", "post"}

(***************************************************************************)
(* Claims about attempts of the Upload Engine (UploadSpec).                *)
(***************************************************************************)
\* C31: the handle resumeUpload installs is not an aborted one, and while the
\* attempt of the current handle is not aborted, a step that ends a send
\* which uploadChunk started with the handle of an earlier attempt neither
\* aborts the handle nor changes the status, unless the step is the user's
\* pauseUpload.
C31_NoLeakIntoNewAttempt ==
    /\ [][(up.status # "none" /\ up'.status # "none" /\ up'.controller # up.controller)
          => up'.controller \notin upAborted']_vars
    /\ [][(/\ up.status # "none"
           /\ up'.status # "none"
           /\ up'.controller = up.controller
           /\ up.controller \notin upAborted
           /\ \E s \in upSends \ upSends' : s.phase = "post" /\ s.signal # up.controller)
          => \/ up.controller \notin upAborted' /\ up'.status = up.status
             \/ pauseUpload]_vars

(***************************************************************************)
(* Claims about the expiry sweep (SweepSpec).                              *)
(***************************************************************************)
\* C32: cleanOldChunks leaves in the registry the sessions whose lastUpdated
\* is at most CHUNK_TIMEOUT (15 minutes) before now, each of them unchanged,
\* removes the others, and notifies once if it removed a session and not at
\* all if it removed none.
C32_SweepRemovesTheExpired ==
    [][(lastOp' = "cleanOldChunks")
       => /\ DOMAIN storage' = {k \in DOMAIN storage :
                                   now - storage[k].lastUpdated <= 15 * 60 * 1000}
          /\ \A k \in DOMAIN storage' : storage'[k] = storage[k]
          /\ notifyCount' = IF DOMAIN storage' = DOMAIN storage THEN 0 ELSE 1]_vars

\* A sweep removed a session and kept one that was last updated exactly the
\* expiry window ago.
C32_Witness ==
    /\ lastOp = "cleanOldChunks"
    /\ notifyCount = 1
    /\ \E k \in DOMAIN storage : now - storage[k].lastUpdated = 15 * 60 * 1000

\* C33: a step that inserts a ChunkRecord into a session or removes one from
\* it, the session staying in the registry, sets the session's lastUpdated
\* to the current time (which is what keeps the sweep from removing a session
\* whose records changed within the expiry window).
C33_MutationRefreshesLastUpdated ==
    [][\A k \in DOMAIN storage \cap DOMAIN storage' :
           storage'[k].chunks # storage[k].chunks => storage'[k].lastUpdated = now]_vars

(***************************************************************************)
(* Claims about upstream deletions (RegistrySpec).                         *)
(***************************************************************************)
\* C34: every ChunkRecord of the registry names the carrier message it was
\* discovered from, whether the hook or the scanner added it, and after
\* removeChunk(id) no record that names the deleted message is left: a
\* record does not outlive its carrier message.
C34_DeletedCarrierLeavesNoRecord ==
    /\ [](\A k \in DOMAIN storage : \A j \in 1 .. Len(storage[k].chunks) :
              storage[k].chunks[j].messageId \in MessageIds)
    /\ [][(lastOp' = "removeChunk")
          => \E messageId \in MessageIds :
                 \A k \in DOMAIN storage' : \A j \in 1 .. Len(storage'[k].chunks) :
                     storage'[k].chunks[j].messageId # messageId]_vars

(***************************************************************************)
(* Claims about the Scanner (ScanSpec).                                    *)
(***************************************************************************)
\* C35: a scan never has more than `limit` messages scanned; each of its
\* requests asks for min(50, limit - scanned) messages, the first without a
\* cursor and each later one before the last message of the page before it;
\* it leaves its loop with `limit` messages scanned or after an empty page
\* (or when the request fails); and a scan that was started comes to an end.
C35_ScanTerminates ==
    /\ [](scan.pc # "idle" => scan.fetched <= scan.limit)
    /\ [](scan.pc # "idle" =>
            \A k \in 1 .. Len(scan.requests) :
                LET request == scan.requests[k]
                IN /\ request.limit = IF 50 < scan.limit - request.fetched THEN 50
                                      ELSE scan.limit - request.fetched
                   /\ request.limit >= 1
                   /\ IF k = 1 THEN request.before = NoMessage /\ request.fetched = 0
                      ELSE LET previous == scan.requests[k - 1]
                               page == messagesBefore(channel, previous.before, previous.limit)
                           IN /\ request.before = page[Len(page)]
                              /\ request.fetched = previous.fetched + Len(page))
    /\ [](scan.pc = "done" =>
            \/ scan.outcome = "limit" /\ scan.fetched >= scan.limit
            \/ /\ scan.outcome = "empty"
               /\ scan.fetched < scan.limit
               /\ LET last == scan.requests[Len(scan.requests)]
                  IN messagesBefore(channel, last.before, last.limit) = <<>>
            \/ scan.outcome \in {"notArray", "threw"})
    /\ (scan.pc \in {"get", "sleep"}) ~> (scan.pc = "done")

\* A scan of three pages ended with `limit` messages scanned and found the
\* session the oldest messages carry.
C35_Witness ==
    /\ scan.pc = "done"
    /\ scan.outcome = "limit"
    /\ Len(scan.requests) = 3
    /\ scan.fetched = scan.limit
    /\ DlSession \in DOMAIN storage
    /\ storage[DlSession].isComplete

(***************************************************************************)
(* Claims about live settings (LiveSettingsSpec).                          *)
(***************************************************************************)
\* C36: when a pass of a running transfer loop's outer while admits a chunk
\* (in processUpload the first admission of the pass, the later ones of the
\* same pass follow a delay inside it), the loop has no more workers in flight
\* after the admission than the worker count configured at that time, in
\* downloadLoop and in processUpload alike.
C36_LiveWorkerCount ==
    /\ [][\A id \in 1 .. Len(dlLoops) :
            (dlLoops'[id].pc # "done" /\ dlLoops'[id].index > dlLoops[id].index)
                => dlLoops'[id].activeCount <= downloadConcurrency]_vars
    /\ [][\A id \in 1 .. Len(upLoops) :
            (/\ upLoops[id].pc \in {"checksum", "poll"}
             /\ upLoops'[id].pc # "done"
             /\ upLoops'[id].index > upLoops[id].index)
                => upLoops'[id].activeCount <= uploadConcurrency]_vars

(***************************************************************************)
(* Claims about the progress counters.                                     *)
(***************************************************************************)
\* The sizes of the chunks with an index in S, added up.
RECURSIVE sizeOfChunks(_, _)
sizeOfChunks(S, total) ==
    IF S = {} THEN 0
    ELSE LET i == CHOOSE x \in S : TRUE
         IN Len(chunkBytes(i, total)) + sizeOfChunks(S \ {i}, total)

\* C37: in every DownloadState bytesDownloaded is the sum of the sizes of the
\* chunks whose index is in chunksDownloaded, and it is at most totalBytes.
C37_BytesDownloadedIsTheSum ==
    (dl.status # "none") =>
        /\ dl.bytesDownloaded = sizeOfChunks(dl.chunksDownloaded, storage[DlSession].totalChunks)
        /\ dl.bytesDownloaded <= dl.totalBytes

\* The length of file.slice(i * chunkSize, min((i + 1) * chunkSize, size)),
\* added up over the indices of S.
RECURSIVE sliceLengths(_, _, _)
sliceLengths(S, chunkSize, size) ==
    IF S = {} THEN 0
    ELSE LET i == CHOOSE x \in S : TRUE
             end == IF (i + 1) * chunkSize < size THEN (i + 1) * chunkSize ELSE size
         IN (end - i * chunkSize) + sliceLengths(S \ {i}, chunkSize, size)

\* C38: after updateProgress, bytesUploaded is the sum over the completed
\* indices i of min((i+1)*chunkSize, size) - i*chunkSize; it is at most size,
\* and it is size when every index is completed.
C38_BytesUploadedIsTheSum ==
    (lastOp = "updateProgress") =>
        /\ up.bytesUploaded = sliceLengths(up.completedIndices, up.chunkSize, up.size)
        /\ up.bytesUploaded <= up.size
        /\ (up.completedIndices = 0 .. up.totalChunks - 1) => up.bytesUploaded = up.size

\* The progress of a finished upload of several chunks whose last chunk is
\* shorter than the others.
C38_Witness ==
    /\ lastOp = "updateProgress"
    /\ up.totalChunks >= 2
    /\ up.size % up.chunkSize # 0
    /\ up.completedIndices = 0 .. up.totalChunks - 1
    /\ up.bytesUploaded = up.size

(***************************************************************************)
(* Claims about the loops of the engines.                                  *)
(***************************************************************************)
\* C39: a processUpload call whose attempt was cancelled and is not the
\* attempt of the session's current handle does nothing more when it wakes
\* from its delay than return: it dispatches no chunk, also when resumeUpload has installed
\* a new handle and cleared isPaused in the meantime.
C39_PausedLoopEnds ==
    [][\A id \in 1 .. Len(upLoops) :
          (/\ up.status # "none"
           /\ up'.status # "none"
           /\ Len(upLoops') >= id
           /\ id \in upAborted
           /\ id # up'.controller
           /\ upLoops[id].pc \in {"delay", "poll"}
           /\ \/ upLoops'[id].pc # upLoops[id].pc
              \/ upLoops'[id].index # upLoops[id].index)
          => /\ upLoops'[id].pc = "done"
             /\ \A s \in upSends' \ upSends : s.loop # id]_vars

\* C40: a DownloadState in status downloading comes to status completed,
\* paused or error, when every fetch settles and every timer fires.
C40_AttemptLeavesDownloading ==
    (dl.status = "downloading") ~> (dl.status \in {"completed", "paused", "error"})

====
